---- MODULE Spec2Model ----
(***************************************************************************)
(* Azure Monitor Cost Optimizer: the analysis run of the static site       *)
(* (runAnalysis), the usage summarizer (summarizeQueryData) and the        *)
(* rule-based recommendation engine (generateRecommendations).             *)
(*                                                                         *)
(* Units.  JavaScript numbers are modelled by integers:                    *)
(*   - a GB figure is held in tenths of a GB       (0.3 GB  is 3),         *)
(*   - a queries-per-day figure in tenths per day  (0.4/day is 4),         *)
(*   - a saving in  tenth-GB * cents-per-GB * percent.                     *)
(* Table names are strings; where the code looks inside a name             *)
(* (toLowerCase, includes, endsWith) the name is spelled out as a          *)
(* sequence of characters by Spelling.                                     *)
(***************************************************************************)
EXTENDS Integers, Sequences, FiniteSets, TLC

VARIABLES
    pc,                 \* position of runAnalysis
    selectedWorkspaces, \* sequence of selected workspace names
    summaryGlobal,      \* what the free identifier `summary` resolves to
    queryIdx,           \* loop index i of the per-workspace query loop
    allQueryData,       \* sequence of [name, results], keyed by name
    alertScan,          \* fetchScheduledQueryRules in flight
    dashScan,           \* fetchDashboardTables in flight
    azureRefs,          \* tables really referenced by alert rules / tiles
    dataSummary,        \* result of summarizeQueryData plus reference sets
    gates,              \* the gate lists generateRecommendations computed
    recommendations,    \* the card sequence handed to showRecommendations
    outcome,            \* what the run ended with
    script,             \* which script the page loads: "part_001" or "part_002"
    responseText,       \* the text given to showRecommendations, as tokens
    contentHTML,        \* the nodes of the recommendationsContent element
    clipboard,          \* the Markdown export written to the clipboard
    alertRule,          \* an alert rule's query text and the tables found in it
    server              \* server.js: the session store, requests, responses;
                        \* << >> where the page is specified without it

\* the page's side of showRecommendations and of the Markdown export
codecVars == << script, responseText, contentHTML, clipboard >>

vars == << pc, selectedWorkspaces, summaryGlobal, queryIdx, allQueryData,
           alertScan, dashScan, azureRefs, dataSummary, gates,
           recommendations, outcome, codecVars, alertRule, server >>

(***************************************************************************)
(* Program constants                                                       *)
(***************************************************************************)
DaysPerMonth == 30
MinimalDataGB == 1
CommitmentTierDailyGB == 100
ApproachingTierDailyGB == 50
FrequentQueriesPerDay == 5
AuxiliaryQueriesPerDay == 1
TopTablesLimit == 10
PriceAnalyticsCents == 276
PriceCommitmentCents == 230
BasicSavingsPct == 50
AuxiliarySavingsPct == 85

\* tenths of a unit, the scale GB and queries/day figures are held in
Tenths(x) == x * 10

debugTables == {"ContainerLogV2", "AppTraces", "AzureDiagnostics", "Syslog"}

(***************************************************************************)
(* Strings as character sequences                                          *)
(***************************************************************************)
UpperCaseLetters == << "A","B","C","D","E","F","G","H","I","J","K","L","M",
                       "N","O","P","Q","R","S","T","U","V","W","X","Y","Z" >>
LowerCaseLetters == << "a","b","c","d","e","f","g","h","i","j","k","l","m",
                       "n","o","p","q","r","s","t","u","v","w","x","y","z" >>

Spelling(name) ==
    CASE name = "Syslog"           -> << "S","y","s","l","o","g" >>
      [] name = "AppTraces"        -> << "A","p","p","T","r","a","c","e","s" >>
      [] name = "ContainerLogV2"   -> << "C","o","n","t","a","i","n","e","r","L","o","g","V","2" >>
      [] name = "AzureDiagnostics" -> << "A","z","u","r","e","D","i","a","g","n","o","s","t","i","c","s" >>
      [] name = "SecurityEvent"    -> << "S","e","c","u","r","i","t","y","E","v","e","n","t" >>
      [] name = "Debug_CL"         -> << "D","e","b","u","g","_","C","L" >>
      [] name = "Perf"             -> << "P","e","r","f" >>
      [] name = "App"              -> << "A","p","p" >>
      [] name = "SYSLOG"           -> << "S","Y","S","L","O","G" >>
      [] name = "SyslogDaily"      -> << "S","y","s","l","o","g","D","a","i","l","y" >>
      [] name = "Unknown"          -> << "U","n","k","n","o","w","n" >>
      [] name = "Heartbeat"        -> << "H","e","a","r","t","b","e","a","t" >>
      [] name = "AzureActivity"    -> << "A","z","u","r","e","A","c","t","i","v","i","t","y" >>
      [] name = "AzureMetrics"     -> << "A","z","u","r","e","M","e","t","r","i","c","s" >>
      [] name = "InsightsMetrics"  -> << "I","n","s","i","g","h","t","s","M","e","t","r","i","c","s" >>
      [] name = "Usage"            -> << "U","s","a","g","e" >>
      [] name = "Operation"        -> << "O","p","e","r","a","t","i","o","n" >>
      [] name = "Update"           -> << "U","p","d","a","t","e" >>
      [] name = "AuditLogs"        -> << "A","u","d","i","t","L","o","g","s" >>
      [] name = "SigninLogs"       -> << "S","i","g","n","i","n","L","o","g","s" >>
      [] name = "VMConnection"     -> << "V","M","C","o","n","n","e","c","t","i","o","n" >>
      \* the words of the query texts and of the extractor's patterns
      [] name = "where"            -> << "w","h","e","r","e" >>
      [] name = "project"          -> << "p","r","o","j","e","c","t" >>
      [] name = "summarize"        -> << "s","u","m","m","a","r","i","z","e" >>
      [] name = "extend"           -> << "e","x","t","e","n","d" >>
      [] name = "join"             -> << "j","o","i","n" >>
      [] name = "take"             -> << "t","a","k","e" >>
      [] name = "top"              -> << "t","o","p" >>
      [] name = "limit"            -> << "l","i","m","i","t" >>
      [] name = "order"            -> << "o","r","d","e","r" >>
      [] name = "sort"             -> << "s","o","r","t" >>
      [] name = "distinct"         -> << "d","i","s","t","i","n","c","t" >>
      [] name = "count"            -> << "c","o","u","n","t" >>
      [] name = "mv-expand"        -> << "m","v","-","e","x","p","a","n","d" >>
      [] name = "parse"            -> << "p","a","r","s","e" >>
      [] name = "evaluate"         -> << "e","v","a","l","u","a","t","e" >>
      [] name = "let"              -> << "l","e","t" >>
      [] name = "set"              -> << "s","e","t" >>
      [] name = "print"            -> << "p","r","i","n","t" >>
      [] name = "render"           -> << "r","e","n","d","e","r" >>
      [] name = "ago"              -> << "a","g","o" >>
      [] name = "now"              -> << "n","o","w" >>
      [] name = "datetime"         -> << "d","a","t","e","t","i","m","e" >>
      [] name = "timespan"         -> << "t","i","m","e","s","p","a","n" >>
      [] name = "true"             -> << "t","r","u","e" >>
      [] name = "false"            -> << "f","a","l","s","e" >>
      [] name = "null"             -> << "n","u","l","l" >>
      [] name = "and"              -> << "a","n","d" >>
      [] name = "or"               -> << "o","r" >>
      [] name = "not"              -> << "n","o","t" >>
      [] name = "union"            -> << "u","n","i","o","n" >>
      [] name = "kind"             -> << "k","i","n","d" >>
      [] name = "inner"            -> << "i","n","n","e","r" >>
      [] name = "table"            -> << "t","a","b","l","e" >>
      [] name = "by"               -> << "b","y" >>
      [] name = "on"               -> << "o","n" >>
      [] name = "TimeGenerated"    -> << "T","i","m","e","G","e","n","e","r","a","t","e","d" >>
      [] name = "Computer"         -> << "C","o","m","p","u","t","e","r" >>
      [] name = "heartbeat"        -> << "h","e","a","r","t","b","e","a","t" >>
      [] name = "Ab"               -> << "A","b" >>
      [] name = "Where"            -> << "W","h","e","r","e" >>
      [] name = "Event"            -> << "E","v","e","n","t" >>

\* String.prototype.toLowerCase, on one character and on a string
LowerChar(c) ==
    IF \E i \in 1..26 : UpperCaseLetters[i] = c
    THEN LowerCaseLetters[CHOOSE i \in 1..26 : UpperCaseLetters[i] = c]
    ELSE c

ToLowerCase(s) == [i \in 1..Len(s) |-> LowerChar(s[i])]

\* String.prototype.includes
Includes(s, sub) ==
    \E i \in 0..(Len(s) - Len(sub)) : \A j \in 1..Len(sub) : s[i + j] = sub[j]

\* String.prototype.endsWith
EndsWith(s, suffix) ==
    /\ Len(s) >= Len(suffix)
    /\ \A j \in 1..Len(suffix) : s[Len(s) - Len(suffix) + j] = suffix[j]

CustomTableSuffix == << "_", "C", "L" >>

(***************************************************************************)
(* Sequence helpers standing for Array.prototype methods                   *)
(***************************************************************************)
\* Array.prototype.indexOf on a column list: 0-based, -1 when absent
IndexOf(columns, col) ==
    IF \E i \in 1..Len(columns) : columns[i] = col
    THEN (CHOOSE i \in 1..Len(columns) :
             columns[i] = col /\ \A k \in 1..(i - 1) : columns[k] # col) - 1
    ELSE -1

\* A cell of a result row: a string, a number, or undefined (no such cell)
Str(v) == [t |-> "str", v |-> v]
Num(v) == [t |-> "num", n |-> v]
Undefined == [t |-> "undefined"]

\* row[index]: undefined outside the row
Cell(row, index) ==
    IF index >= 0 /\ index < Len(row) THEN row[index + 1] ELSE Undefined

\* parseFloat(x) || 0 : a number stays, anything else (NaN) becomes 0
ParseFloatOrZero(cell) == IF cell.t = "num" THEN cell.n ELSE 0

\* x || 'Unknown' used as an object key
NameOrUnknown(cell) ==
    CASE cell.t = "str" -> (IF cell.v = "" THEN "Unknown" ELSE cell.v)
      [] cell.t = "num" -> (IF cell.n = 0 THEN "Unknown" ELSE ToString(cell.n))
      [] OTHER          -> "Unknown"

RECURSIVE SumGB(_)
SumGB(tables) ==
    IF tables = << >> THEN 0 ELSE Head(tables).gb + SumGB(Tail(tables))

Names(tables) == [i \in 1..Len(tables) |-> tables[i].name]

Range(s) == {s[i] : i \in 1..Len(s)}

(***************************************************************************)
(* Query results.  queryWorkspace stores, per named query, either          *)
(* {columns, rows}, or {error, rows: [], columns: []}, or                  *)
(* {basicLogsTable: true, rows: [], columns: []}.                          *)
(***************************************************************************)
VolumeColumns == << "DataType", "BillableGB" >>
FrequencyColumns == << "TableName", "QueryCount", "DistinctUsers", "AvgQueriesPerDay" >>
StatusColumns == << "RecordCount", "IsEnabled" >>

TableResult(columns, rows) ==
    [columns |-> columns, rows |-> rows, basicLogsTable |-> FALSE, error |-> FALSE]
ErrorResult ==
    [columns |-> << >>, rows |-> << >>, basicLogsTable |-> FALSE, error |-> TRUE]
BasicLogsResult ==
    [columns |-> << >>, rows |-> << >>, basicLogsTable |-> TRUE, error |-> FALSE]

VolumeRow(name, gb) == << Str(name), Num(gb) >>
\* QueryCount = count(), AvgQueriesPerDay = count() / 30.0 ; avg is in tenths
FrequencyRow(name, avg) == << Str(name), Num(avg * 3), Num(1), Num(avg) >>

\* allQueryData[ws.name] = queryResults : a keyed store in insertion order
PutQueryData(data, wsName, results) ==
    IF \E i \in 1..Len(data) : data[i].name = wsName
    THEN [i \in 1..Len(data) |->
             IF data[i].name = wsName
             THEN [name |-> wsName, results |-> results] ELSE data[i]]
    ELSE Append(data, [name |-> wsName, results |-> results])

(***************************************************************************)
(* summarizeQueryData                                                      *)
(***************************************************************************)
\* tableData[tableName] += gb, creating the key on first use
AddTableGB(tableData, name, gb) ==
    IF \E i \in 1..Len(tableData) : tableData[i].name = name
    THEN [i \in 1..Len(tableData) |->
             IF tableData[i].name = name
             THEN [name |-> name, gb |-> tableData[i].gb + gb]
             ELSE tableData[i]]
    ELSE Append(tableData, [name |-> name, gb |-> gb])

\* volumeData.rows.forEach(...) : acc is [wsGB, tableData]
RECURSIVE VolumeRows(_, _, _, _)
VolumeRows(rows, gbIndex, typeIndex, acc) ==
    IF rows = << >> THEN acc
    ELSE LET row == Head(rows)
             gb == ParseFloatOrZero(Cell(row, gbIndex))
             tableName == NameOrUnknown(Cell(row, typeIndex))
         IN VolumeRows(Tail(rows), gbIndex, typeIndex,
                       [wsGB |-> acc.wsGB + gb,
                        tableData |-> AddTableGB(acc.tableData, tableName, gb)])

\* tableQueryData[tableName].avgQueriesPerDay += ..., queryCount += ...
AddTableQueries(tableQueryData, name, queryCount, avg) ==
    IF \E i \in 1..Len(tableQueryData) : tableQueryData[i].tableName = name
    THEN [i \in 1..Len(tableQueryData) |->
             IF tableQueryData[i].tableName = name
             THEN [tableName |-> name,
                   queryCount |-> tableQueryData[i].queryCount + queryCount,
                   avgQueriesPerDay |-> tableQueryData[i].avgQueriesPerDay + avg]
             ELSE tableQueryData[i]]
    ELSE Append(tableQueryData,
                [tableName |-> name, queryCount |-> queryCount,
                 avgQueriesPerDay |-> avg])

RECURSIVE FrequencyRows(_, _, _, _, _)
FrequencyRows(rows, tableNameIdx, queryCountIdx, avgPerDayIdx, tableQueryData) ==
    IF rows = << >> THEN tableQueryData
    ELSE LET row == Head(rows)
             tableName == NameOrUnknown(Cell(row, tableNameIdx))
             queryCount == ParseFloatOrZero(Cell(row, queryCountIdx))
             avg == ParseFloatOrZero(Cell(row, avgPerDayIdx))
         IN FrequencyRows(Tail(rows), tableNameIdx, queryCountIdx, avgPerDayIdx,
                          AddTableQueries(tableQueryData, tableName, queryCount, avg))

\* Array.prototype.sort((a, b) => b.gb - a.gb) : stable, descending
RECURSIVE SortByGBDesc(_)
SortByGBDesc(tables) ==
    IF tables = << >> THEN << >>
    ELSE LET sorted == SortByGBDesc(SubSeq(tables, 1, Len(tables) - 1))
             x == tables[Len(tables)]
             n == Cardinality({i \in 1..Len(sorted) : sorted[i].gb >= x.gb})
         IN SubSeq(sorted, 1, n) \o << x >> \o SubSeq(sorted, n + 1, Len(sorted))

\* Array.prototype.sort((a, b) => b.queryCount - a.queryCount)
RECURSIVE SortByQueryCountDesc(_)
SortByQueryCountDesc(tables) ==
    IF tables = << >> THEN << >>
    ELSE LET sorted == SortByQueryCountDesc(SubSeq(tables, 1, Len(tables) - 1))
             x == tables[Len(tables)]
             n == Cardinality({i \in 1..Len(sorted) :
                                  sorted[i].queryCount >= x.queryCount})
         IN SubSeq(sorted, 1, n) \o << x >> \o SubSeq(sorted, n + 1, Len(sorted))

\* Array.prototype.slice(0, n)
SliceTo(s, n) == SubSeq(s, 1, IF Len(s) < n THEN Len(s) ELSE n)

\* workspaceGB stands for byResourceGroup: the wsGB pushed for each workspace
\* (line 1706), in the order of Object.entries(allQueryData)
EmptySummary ==
    [totalWorkspaces |-> 0, workspacesWithData |-> 0, workspacesEmpty |-> 0,
     totalIngestionGB |-> 0, workspaceGB |-> << >>,
     laQueryLogsEnabled |-> FALSE, laQueryLogsBasicLogs |-> FALSE,
     tableData |-> << >>, tableQueryData |-> << >>]

\* a faulty variant, under which C23 fails: wsGB >= 0
HasDataOrNone(wsGB) == wsGB >= 0

\* line 1709: if (wsGB > 0) the workspace counts as one with data
HasData(wsGB) == wsGB > 0

\* one iteration of  for (const [wsName, queryResults] of Object.entries(...))
SummarizeWorkspace(acc, queryResults) ==
    LET volumeData == queryResults.dataVolumeByTable
        volume ==
            IF Len(volumeData.rows) > 0
            THEN VolumeRows(volumeData.rows,
                            IndexOf(volumeData.columns, "BillableGB"),
                            IndexOf(volumeData.columns, "DataType"),
                            [wsGB |-> 0, tableData |-> acc.tableData])
            ELSE [wsGB |-> 0, tableData |-> acc.tableData]
        laQueryLogsStatus == queryResults.laQueryLogsStatus
        queryFreqData == queryResults.tableQueryFrequency
        hasFrequencyRows ==
            ~queryFreqData.basicLogsTable /\ Len(queryFreqData.rows) > 0
    IN [totalWorkspaces |-> acc.totalWorkspaces,
        workspacesWithData |->
            acc.workspacesWithData + (IF HasData(volume.wsGB) THEN 1 ELSE 0),
        workspacesEmpty |->
            acc.workspacesEmpty + (IF HasData(volume.wsGB) THEN 0 ELSE 1),
        totalIngestionGB |-> acc.totalIngestionGB + volume.wsGB,
        workspaceGB |-> Append(acc.workspaceGB, volume.wsGB),
        laQueryLogsEnabled |->
            \/ acc.laQueryLogsEnabled
            \/ (~laQueryLogsStatus.basicLogsTable /\ Len(laQueryLogsStatus.rows) > 0)
            \/ hasFrequencyRows,
        laQueryLogsBasicLogs |->
            \/ acc.laQueryLogsBasicLogs
            \/ laQueryLogsStatus.basicLogsTable
            \/ queryFreqData.basicLogsTable,
        tableData |-> volume.tableData,
        tableQueryData |->
            IF hasFrequencyRows
            THEN FrequencyRows(queryFreqData.rows,
                               IndexOf(queryFreqData.columns, "TableName"),
                               IndexOf(queryFreqData.columns, "QueryCount"),
                               IndexOf(queryFreqData.columns, "AvgQueriesPerDay"),
                               acc.tableQueryData)
            ELSE acc.tableQueryData]

RECURSIVE SummarizeWorkspaces(_, _)
SummarizeWorkspaces(data, acc) ==
    IF data = << >> THEN acc
    ELSE SummarizeWorkspaces(Tail(data), SummarizeWorkspace(acc, Head(data).results))

\* the returned summary: the counters, topTables and frequentlyQueriedTables
SummaryOf(acc) ==
    [totalWorkspaces |-> acc.totalWorkspaces,
     workspacesWithData |-> acc.workspacesWithData,
     workspacesEmpty |-> acc.workspacesEmpty,
     totalIngestionGB |-> acc.totalIngestionGB,
     workspaceGB |-> acc.workspaceGB,
     laQueryLogsEnabled |-> acc.laQueryLogsEnabled,
     laQueryLogsBasicLogs |-> acc.laQueryLogsBasicLogs,
     topTables |-> SliceTo(SortByGBDesc(acc.tableData), TopTablesLimit),
     frequentlyQueriedTables |-> SortByQueryCountDesc(acc.tableQueryData)]

SummarizeQueryData(data) ==
    SummaryOf(SummarizeWorkspaces(data,
                  [EmptySummary EXCEPT !.totalWorkspaces = Len(data)]))

(***************************************************************************)
(* generateRecommendations                                                 *)
(*                                                                         *)
(* A card is the [CARD:kind] ... [/CARD] block appended to the             *)
(* recommendations string: its kind, its title (without the emoji), the    *)
(* tables its body lists and the saving its [IMPACT] states.               *)
(***************************************************************************)
Card(kind, title, tables, savings) ==
    [kind |-> kind, title |-> title, tables |-> tables, savings |-> savings]

TitleExecutiveSummary == "Executive Summary"
TitleTopDataSources == "Top Data Sources"
TitleCommitmentTier == "Commitment Tier Opportunity"
TitleApproachingTier == "Approaching Commitment Tier"
TitleAlertTables == "Tables Used in Alert Rules - DO NOT Use Basic Logs"
TitleDashboardTables == "Tables Used in Dashboards - DO NOT Use Basic Logs"
TitleLAQueryLogsBasic == "LAQueryLogs is Configured as Basic Logs"
TitleEnableLAQueryLogs == "Enable LAQueryLogs for Accurate Basic Logs Analysis"
TitleAuxiliaryLogs == "Auxiliary Logs Opportunity - Maximum Savings"
TitleBasicLogs == "Basic Logs Opportunity"
TitleFrequentlyQueried == "Frequently Queried Tables - Not Recommended for Basic Logs"
TitleRetention == "Data Retention Settings"
TitleDataCollection == "Data Collection Optimization"

\* name.toLowerCase(), for the names that occur
KnownNames ==
    { "Syslog", "AppTraces", "ContainerLogV2", "AzureDiagnostics", "SecurityEvent",
      "Debug_CL", "Perf", "App", "SYSLOG", "SyslogDaily", "Unknown",
      "Heartbeat", "AzureActivity", "AzureMetrics", "InsightsMetrics", "Usage",
      "Operation", "Update", "AuditLogs", "SigninLogs", "VMConnection" }
LowerCased == [n \in KnownNames |-> ToLowerCase(Spelling(n))]

\* tablesInAlerts.some(alertTable => equal || includes either way), lower-cased
IsTableInAlerts(tablesInAlerts, tableName) ==
    \E i \in 1..Len(tablesInAlerts) :
        LET alertTable == LowerCased[tablesInAlerts[i]]
            name == LowerCased[tableName]
        IN \/ alertTable = name
           \/ Includes(alertTable, name)
           \/ Includes(name, alertTable)

\* tablesInDashboards.some(dashTable => equal || includes either way)
IsTableInDashboards(tablesInDashboards, tableName) ==
    \E i \in 1..Len(tablesInDashboards) :
        LET dashTable == LowerCased[tablesInDashboards[i]]
            name == LowerCased[tableName]
        IN \/ dashTable = name
           \/ Includes(dashTable, name)
           \/ Includes(name, dashTable)

\* frequentlyQueriedTables.find(q => q.tableName.toLowerCase() === name.toLowerCase())
\* << >> stands for undefined, << q >> for the entry found
FindQueryInfo(frequentlyQueriedTables, tableName) ==
    LET hits == {i \in 1..Len(frequentlyQueriedTables) :
                    LowerCased[frequentlyQueriedTables[i].tableName]
                        = LowerCased[tableName]}
    IN IF hits = {} THEN << >>
       ELSE << frequentlyQueriedTables[CHOOSE i \in hits : \A k \in hits : i <= k] >>

\* queryInfo && queryInfo.avgQueriesPerDay >= 5
IsFrequentlyQueried(frequentlyQueriedTables, tableName) ==
    LET queryInfo == FindQueryInfo(frequentlyQueriedTables, tableName)
    IN /\ queryInfo # << >>
       /\ queryInfo[1].avgQueriesPerDay >= Tenths(FrequentQueriesPerDay)

\* t.name.endsWith('_CL')
IsCustomTable(tableName) == EndsWith(Spelling(tableName), CustomTableSuffix)

\* !queryInfo || queryInfo.avgQueriesPerDay < 1
IsAuxiliaryCandidate(frequentlyQueriedTables, tableName) ==
    LET queryInfo == FindQueryInfo(frequentlyQueriedTables, tableName)
    IN \/ queryInfo = << >>
       \/ queryInfo[1].avgQueriesPerDay < Tenths(AuxiliaryQueriesPerDay)

\* debugTableData = dataSummary.topTables.filter(t => debugTables.includes(t.name))
DebugTableData(topTables) == SelectSeq(topTables, LAMBDA t : t.name \in debugTables)

\* safeForBasicLogs with the usedInAlerts test left out: a faulty variant,
\* under which C1 fails (the alert gate is what upholds C1)
SafeForBasicLogsIgnoringAlerts(ds, debugTableData) ==
    SelectSeq(debugTableData,
        LAMBDA t : /\ ~IsFrequentlyQueried(ds.frequentlyQueriedTables, t.name)
                   /\ ~IsTableInDashboards(ds.tablesInDashboards, t.name))

\* safeForBasicLogs: not frequently queried, not in alerts, not in dashboards
SafeForBasicLogs(ds, debugTableData) ==
    SelectSeq(debugTableData,
        LAMBDA t : /\ ~IsFrequentlyQueried(ds.frequentlyQueriedTables, t.name)
                   /\ ~IsTableInAlerts(ds.tablesInAlerts, t.name)
                   /\ ~IsTableInDashboards(ds.tablesInDashboards, t.name))

NotSafeForBasicLogs(ds, debugTableData) ==
    SelectSeq(debugTableData,
        LAMBDA t : IsFrequentlyQueried(ds.frequentlyQueriedTables, t.name))

TablesUsedInAlerts(ds, debugTableData) ==
    SelectSeq(debugTableData,
        LAMBDA t : IsTableInAlerts(ds.tablesInAlerts, t.name))

\* tablesUsedInDashboards without the && !isTableInAlerts(t.name) exclusion:
\* a faulty variant, under which C10 fails
TablesUsedInDashboardsAndAlerts(ds, debugTableData) ==
    SelectSeq(debugTableData,
        LAMBDA t : IsTableInDashboards(ds.tablesInDashboards, t.name))

TablesUsedInDashboards(ds, debugTableData) ==
    SelectSeq(debugTableData,
        LAMBDA t : /\ IsTableInDashboards(ds.tablesInDashboards, t.name)
                   /\ ~IsTableInAlerts(ds.tablesInAlerts, t.name))

\* tablesNotBlocked of the two LAQueryLogs warnings
TablesNotBlocked(ds, debugTableData) ==
    SelectSeq(debugTableData,
        LAMBDA t : /\ ~IsTableInAlerts(ds.tablesInAlerts, t.name)
                   /\ ~IsTableInDashboards(ds.tablesInDashboards, t.name))

\* customTables without the endsWith('_CL') filter: a faulty variant, under
\* which C7 fails
CustomTablesUnfiltered(safeForBasicLogs) == safeForBasicLogs

CustomTables(safeForBasicLogs) ==
    SelectSeq(safeForBasicLogs, LAMBDA t : IsCustomTable(t.name))
AzureTables(safeForBasicLogs) ==
    SelectSeq(safeForBasicLogs, LAMBDA t : ~IsCustomTable(t.name))

AuxiliaryCandidates(ds, customTables) ==
    SelectSeq(customTables,
        LAMBDA t : IsAuxiliaryCandidate(ds.frequentlyQueriedTables, t.name))

\* [...azureTables, ...basicOnlyCustomTables]
BasicCandidates(azureTables, customTables, auxiliaryCandidates) ==
    azureTables \o
    SelectSeq(customTables, LAMBDA t : t \notin Range(auxiliaryCandidates))

NotSafeOnlyDueToQueries(ds, notSafeForBasicLogs) ==
    SelectSeq(notSafeForBasicLogs,
        LAMBDA t : /\ ~IsTableInAlerts(ds.tablesInAlerts, t.name)
                   /\ ~IsTableInDashboards(ds.tablesInDashboards, t.name))

\* The lists the function derives from dataSummary (lines 1814-1862, 1920,
\* 1989-2040, 2073)
TierLists(ds, debugTableData, safeForBasicLogs, notSafeForBasicLogs) ==
    [debugTableData |-> debugTableData,
     safeForBasicLogs |-> safeForBasicLogs,
     notSafeForBasicLogs |-> notSafeForBasicLogs,
     tablesUsedInAlerts |-> TablesUsedInAlerts(ds, debugTableData),
     tablesUsedInDashboards |-> TablesUsedInDashboards(ds, debugTableData),
     tablesNotBlocked |-> TablesNotBlocked(ds, debugTableData),
     auxiliaryCandidates |->
         AuxiliaryCandidates(ds, CustomTables(safeForBasicLogs)),
     basicCandidates |->
         BasicCandidates(AzureTables(safeForBasicLogs),
                         CustomTables(safeForBasicLogs),
                         AuxiliaryCandidates(ds, CustomTables(safeForBasicLogs))),
     notSafeOnlyDueToQueries |->
         NotSafeOnlyDueToQueries(ds, notSafeForBasicLogs)]

CandidateLists(ds, debugTableData) ==
    TierLists(ds, debugTableData, SafeForBasicLogs(ds, debugTableData),
              NotSafeForBasicLogs(ds, debugTableData))

GateLists(ds) == CandidateLists(ds, DebugTableData(ds.topTables))

NoGates ==
    [debugTableData |-> << >>, safeForBasicLogs |-> << >>,
     notSafeForBasicLogs |-> << >>, tablesUsedInAlerts |-> << >>,
     tablesUsedInDashboards |-> << >>, tablesNotBlocked |-> << >>,
     auxiliaryCandidates |-> << >>, basicCandidates |-> << >>,
     notSafeOnlyDueToQueries |-> << >>]

\* a faulty variant, under which C24 fails: dailyGB > threshold
DailyAbove(totalGB, gbPerDay) == totalGB > Tenths(gbPerDay) * DaysPerMonth

\* dailyGB = totalGB / 30 compared with a GB/day threshold
DailyAtLeast(totalGB, gbPerDay) == totalGB >= Tenths(gbPerDay) * DaysPerMonth

BasicSavings(gb) == gb * PriceAnalyticsCents * BasicSavingsPct
AuxiliarySavings(gb) == gb * PriceAnalyticsCents * AuxiliarySavingsPct
CommitmentSavings(gb) == gb * (PriceAnalyticsCents - PriceCommitmentCents) * 100

\* lines 1749-1810: executive summary, top tables, commitment tier
HeaderCards(ds) ==
    << Card("info", TitleExecutiveSummary, << >>, 0) >>
    \o (IF Len(ds.topTables) > 0
        THEN << Card("info", TitleTopDataSources, Names(ds.topTables), 0) >>
        ELSE << >>)
    \o (IF DailyAtLeast(ds.totalIngestionGB, CommitmentTierDailyGB)
        THEN << Card("savings", TitleCommitmentTier, << >>,
                     CommitmentSavings(ds.totalIngestionGB)) >>
        ELSE IF DailyAtLeast(ds.totalIngestionGB, ApproachingTierDailyGB)
        THEN << Card("info", TitleApproachingTier, << >>, 0) >>
        ELSE << >>)

\* lines 1864-1916: the alert and dashboard warnings
BreakageCards(g) ==
    (IF Len(g.tablesUsedInAlerts) > 0
     THEN << Card("warning", TitleAlertTables, Names(g.tablesUsedInAlerts), 0) >>
     ELSE << >>)
    \o (IF Len(g.tablesUsedInDashboards) > 0
        THEN << Card("warning", TitleDashboardTables,
                     Names(g.tablesUsedInDashboards), 0) >>
        ELSE << >>)

\* lines 1984-2070: the Auxiliary Logs and Basic Logs savings cards
TierSavingsCards(g) ==
    (IF Len(g.auxiliaryCandidates) > 0
     THEN << Card("savings", TitleAuxiliaryLogs, Names(g.auxiliaryCandidates),
                  AuxiliarySavings(SumGB(g.auxiliaryCandidates))) >>
     ELSE << >>)
    \o (IF Len(g.basicCandidates) > 0
        THEN << Card("savings", TitleBasicLogs, Names(g.basicCandidates),
                     BasicSavings(SumGB(g.basicCandidates))) >>
        ELSE << >>)

\* lines 1919-2070: the if / else-if chain on the query-audit state.
\* laQueryLogsBasicLogs is the value read from the global `summary` (line 1919),
\* laQueryLogsEnabled the one read from dataSummary (line 1815).
QueryAuditCards(g, laQueryLogsBasicLogs, laQueryLogsEnabled) ==
    IF laQueryLogsBasicLogs /\ Len(g.debugTableData) > 0
    THEN (IF Len(g.tablesNotBlocked) > 0
          THEN << Card("warning", TitleLAQueryLogsBasic, Names(g.tablesNotBlocked),
                       BasicSavings(SumGB(g.tablesNotBlocked))) >>
          ELSE << >>)
    ELSE IF ~laQueryLogsEnabled /\ Len(g.debugTableData) > 0
    THEN (IF Len(g.tablesNotBlocked) > 0
          THEN << Card("warning", TitleEnableLAQueryLogs, Names(g.tablesNotBlocked),
                       BasicSavings(SumGB(g.tablesNotBlocked))) >>
          ELSE << >>)
    ELSE IF Len(g.safeForBasicLogs) > 0
    THEN TierSavingsCards(g)
    ELSE << >>

\* lines 2072-2134: frequently-queried warning, retention and DCR guidance
TrailerCards(g) ==
    (IF Len(g.notSafeOnlyDueToQueries) > 0
     THEN << Card("warning", TitleFrequentlyQueried,
                  Names(g.notSafeOnlyDueToQueries), 0) >>
     ELSE << >>)
    \o << Card("info", TitleRetention, << >>, 0),
          Card("info", TitleDataCollection, << >>, 0) >>

\* the lists already computed when line 1919 is reached
GatesBeforeAuditChain(g) ==
    [NoGates EXCEPT !.debugTableData = g.debugTableData,
                    !.safeForBasicLogs = g.safeForBasicLogs,
                    !.notSafeForBasicLogs = g.notSafeForBasicLogs,
                    !.tablesUsedInAlerts = g.tablesUsedInAlerts,
                    !.tablesUsedInDashboards = g.tablesUsedInDashboards]

\* the body of generateRecommendations over the lists g.  Line 1919 reads
\* summary.laQueryLogsBasicLogs, and `summary` is declared neither in the
\* function nor at the top level of the script: when the page binds no global
\* of that name the read throws a ReferenceError and nothing is returned.
RecommendationsFrom(ds, global, g) ==
    IF ~global.bound
    THEN [threw |-> TRUE, cards |-> HeaderCards(ds) \o BreakageCards(g),
          gates |-> GatesBeforeAuditChain(g)]
    ELSE [threw |-> FALSE,
          cards |-> HeaderCards(ds) \o BreakageCards(g)
                    \o QueryAuditCards(g, global.laQueryLogsBasicLogs,
                                       ds.laQueryLogsEnabled)
                    \o TrailerCards(g),
          gates |-> g]

\* generateRecommendations(allQueryData, dataSummary)
GenerateRecommendations(ds, global) == RecommendationsFrom(ds, global, GateLists(ds))

\* getAIRecommendations, catch branch (lines 602-611): the rule-based text
\* followed by the "AI Analysis Unavailable" warning
TitleAIUnavailable == "AI Analysis Unavailable"
WithAIUnavailable(fallback) ==
    IF fallback.threw THEN fallback
    ELSE [threw |-> FALSE,
          cards |-> fallback.cards
                    \o << Card("warning", TitleAIUnavailable, << >>, 0) >>,
          gates |-> fallback.gates]

AIFallback(ds, global) == WithAIUnavailable(GenerateRecommendations(ds, global))

(***************************************************************************)
(* The environment: workspaces, what the page binds, what Azure answers    *)
(***************************************************************************)
WorkspaceOrder == << "wsA", "wsB" >>
SubscriptionOf(ws) == IF ws = "wsA" THEN "sub1" ELSE "sub2"

\* the sub-sequence of order whose elements are in S
SeqOfSet(order, S) == SelectSeq(order, LAMBDA x : x \in S)

\* updateSelectedWorkspaces: the checked workspaces, in page order
Selections == {SeqOfSet(WorkspaceOrder, S) : S \in SUBSET Range(WorkspaceOrder)}

\* [...new Set(workspaces.map(subscription id))]
RECURSIVE Unique(_)
Unique(s) ==
    IF s = << >> THEN << >>
    ELSE LET rest == Unique(SubSeq(s, 1, Len(s) - 1))
             x == s[Len(s)]
         IN IF x \in Range(rest) THEN rest ELSE Append(rest, x)

SubscriptionIds(workspaces) ==
    Unique([i \in 1..Len(workspaces) |-> SubscriptionOf(workspaces[i])])

\* The identifier `summary` of line 1919 is resolved against the page's global
\* object: unbound, or bound to something that carries no laQueryLogsBasicLogs
\* (no script of the repository creates such a global).
SummaryBindings ==
    { [bound |-> FALSE, laQueryLogsBasicLogs |-> FALSE],
      [bound |-> TRUE,  laQueryLogsBasicLogs |-> FALSE] }

\* rows of the dataVolumeByTable result: one row per table with usage
VolumeRowsOf(order, gbOf) ==
    LET present == SelectSeq(order, LAMBDA n : gbOf[n] > 0)
    IN [i \in 1..Len(present) |-> VolumeRow(present[i], gbOf[present[i]])]

FrequencyRowsOf(order, avgOf) ==
    LET present == SelectSeq(order, LAMBDA n : avgOf[n] > 0)
    IN [i \in 1..Len(present) |-> FrequencyRow(present[i], avgOf[present[i]])]

\* queryWorkspace: {columns, rows} when the response carries a table
VolumeResult(rows) ==
    IF rows = << >> THEN TableResult(VolumeColumns, << >>)
    ELSE TableResult(VolumeColumns, rows)
FrequencyResult(rows) == TableResult(FrequencyColumns, rows)
StatusResults == { ErrorResult, TableResult(StatusColumns, << << Num(7), Str("true") >> >>) }

QueryResults(volume, frequency, status) ==
    [dataVolumeByTable |-> volume, tableQueryFrequency |-> frequency,
     laQueryLogsStatus |-> status]

(***************************************************************************)
(* Input bounds                                                            *)
(***************************************************************************)
\* alert rules found by the reference extractor: subsets of the first
\* MaxAlertTables names of AlertTableOrder
MaxAlertTables == 3
AlertTableOrder == << "Syslog", "App", "SecurityEvent", "SYSLOG" >>
DashboardTableOrder == << "AppTraces", "SyslogDaily" >>

\* GB figures in tenths: 0.3 GB, 0.5 GB, 5 GB, 20 GB, 50 GB, 60 GB, 1500 GB,
\* 3000 GB; queries/day in tenths: 0.1, 0.2, 0.4, 5, 6
RunVolumeResults ==
    { ErrorResult }
    \cup { VolumeResult(VolumeRowsOf(<< "Syslog" >>, gbOf)) :
             gbOf \in [{"Syslog"} -> {0, 3, 600}] }
RunFrequencyResults ==
    { BasicLogsResult }
    \cup { FrequencyResult(FrequencyRowsOf(<< "Syslog" >>, avgOf)) :
             avgOf \in [{"Syslog"} -> {0, 60}] }
RunQueryResults ==
    { QueryResults(v, f, s) :
        v \in RunVolumeResults, f \in RunFrequencyResults, s \in StatusResults }
RunReferenceTables == { << >>, << "Syslog" >> }

\* the tables of the collected usage result, in row order
ComposeTables == << "Syslog", "AppTraces", "SecurityEvent", "Perf", "Debug_CL" >>

\* ten more tables of a busy workspace, each larger than the tables above
ComposeLargerTables ==
    << "Heartbeat", "AzureActivity", "AzureMetrics", "InsightsMetrics", "Usage",
       "Operation", "Update", "AuditLogs", "SigninLogs", "VMConnection" >>
LargerTableGB == 100
ComposeAllTables == ComposeLargerTables \o ComposeTables

\* Syslog and AppTraces are candidates of debugTables; SecurityEvent, Perf
\* (at most one of the two) and Debug_CL are tables outside that list
ComposeFewTablesVolumes ==
    { gbOf \in [Range(ComposeTables) -> {0, 5, 50, 200, 500, 15000, 30000}] :
        /\ gbOf["Syslog"] \in {0, 50, 15000, 30000}
        /\ gbOf["AppTraces"] \in {0, 5}
        /\ gbOf["SecurityEvent"] \in {0, 500}
        /\ gbOf["Perf"] \in {0, 200}
        /\ gbOf["SecurityEvent"] = 0 \/ gbOf["Perf"] = 0
        /\ gbOf["Debug_CL"] \in {0, 50} }

\* the usage of all the tables: the larger tables all absent or all present
WithLargerTables(gbOf, largerGB) ==
    [n \in Range(ComposeAllTables) |->
        IF n \in Range(ComposeTables) THEN gbOf[n] ELSE largerGB]

\* the workspaces with few tables, and the busy workspace in which Syslog
\* (5 GB) is the eleventh table by volume
ComposeVolumeChoices ==
    { WithLargerTables(gbOf, 0) : gbOf \in ComposeFewTablesVolumes }
    \cup { WithLargerTables(gbOf, LargerTableGB) :
             gbOf \in { g \in ComposeFewTablesVolumes :
                          /\ g["Syslog"] = 50
                          /\ \A n \in Range(ComposeTables) \ {"Syslog"} : g[n] = 0 } }
ComposeVolumeResults ==
    { VolumeResult(VolumeRowsOf(ComposeAllTables, gbOf)) : gbOf \in ComposeVolumeChoices }

\* the frequency rows that go with a usage result: Syslog 0.4 or 5 a day or
\* no row, AppTraces 5 a day or no row, Perf 0.2 a day and Debug_CL 0.1 a day
\* when they have usage, SecurityEvent no row
ComposeFrequencyChoices(gbOf) ==
    { avgOf \in [Range(ComposeTables) -> {0, 1, 2, 4, 50}] :
        /\ avgOf["Syslog"] \in {0, 4, 50}
        /\ avgOf["AppTraces"] \in {0, 50}
        /\ avgOf["SecurityEvent"] = 0
        /\ avgOf["Perf"] = (IF gbOf["Perf"] > 0 THEN 2 ELSE 0)
        /\ avgOf["Debug_CL"] = (IF gbOf["Debug_CL"] > 0 THEN 1 ELSE 0) }
ComposeFrequencyResults(gbOf) ==
    { BasicLogsResult }
    \cup { FrequencyResult(FrequencyRowsOf(ComposeTables, avgOf)) :
             avgOf \in ComposeFrequencyChoices(gbOf) }
ComposeQueryResults ==
    UNION { { QueryResults(VolumeResult(VolumeRowsOf(ComposeAllTables, gbOf)), f, s) :
                f \in ComposeFrequencyResults(gbOf), s \in StatusResults } :
            gbOf \in ComposeVolumeChoices }
ComposeAlertTables ==
    { SeqOfSet(AlertTableOrder, S) :
        S \in SUBSET Range(SliceTo(AlertTableOrder, MaxAlertTables)) }
ComposeDashboardTables ==
    { SeqOfSet(DashboardTableOrder, S) : S \in SUBSET Range(DashboardTableOrder) }

(***************************************************************************)
(* runAnalysis                                                             *)
(***************************************************************************)
NoSummary ==
    [totalWorkspaces |-> 0, workspacesWithData |-> 0, workspacesEmpty |-> 0,
     totalIngestionGB |-> 0, workspaceGB |-> << >>,
     laQueryLogsEnabled |-> FALSE,
     laQueryLogsBasicLogs |-> FALSE, topTables |-> << >>,
     frequentlyQueriedTables |-> << >>,
     tablesInAlerts |-> << >>, tablesInDashboards |-> << >>]

ScanNotStarted == [idx |-> 0, tables |-> << >>, finished |-> FALSE]

\* nothing has been shown or copied yet
NothingShown ==
    /\ script = "part_002"
    /\ responseText = << >>
    /\ contentHTML = << >>
    /\ clipboard = << >>

Init ==
    /\ NothingShown
    /\ pc = "idle"
    /\ selectedWorkspaces \in Selections
    /\ summaryGlobal \in SummaryBindings
    /\ queryIdx = 0
    /\ allQueryData = << >>
    /\ alertScan = ScanNotStarted
    /\ dashScan = ScanNotStarted
    /\ azureRefs = [alerts |-> {}, dashboards |-> {}]
    /\ dataSummary = NoSummary
    /\ gates = NoGates
    /\ recommendations = << >>
    /\ outcome = "none"
    /\ alertRule = [query |-> << >>, tables |-> << >>, scanned |-> FALSE]
    /\ server = << >>

\* lines 1091-1114: the empty-selection guard, then the query loop starts
RunAnalysisRejected ==
    /\ pc = "idle"
    /\ Len(selectedWorkspaces) = 0
    /\ pc' = "done"
    /\ outcome' = "selectWorkspace"
    /\ UNCHANGED << codecVars, alertRule, server >>
    /\ UNCHANGED << selectedWorkspaces, summaryGlobal, queryIdx, allQueryData,
                    alertScan, dashScan, azureRefs, dataSummary, gates,
                    recommendations >>

RunAnalysisStarted ==
    /\ pc = "idle"
    /\ Len(selectedWorkspaces) > 0
    /\ pc' = "querying"
    /\ queryIdx' = 1
    /\ UNCHANGED << codecVars, alertRule, server >>
    /\ UNCHANGED << selectedWorkspaces, summaryGlobal, allQueryData, alertScan,
                    dashScan, azureRefs, dataSummary, gates, recommendations,
                    outcome >>

\* lines 1116-1122: allQueryData[ws.name] = await queryWorkspace(ws)
QueryWorkspace ==
    /\ pc = "querying"
    /\ queryIdx <= Len(selectedWorkspaces)
    /\ \E results \in RunQueryResults :
         allQueryData' =
             PutQueryData(allQueryData, selectedWorkspaces[queryIdx], results)
    /\ queryIdx' = queryIdx + 1
    /\ UNCHANGED << codecVars, alertRule, server >>
    /\ UNCHANGED << pc, selectedWorkspaces, summaryGlobal, alertScan, dashScan,
                    azureRefs, dataSummary, gates, recommendations, outcome >>

\* lines 1126-1146: the Advisor fetch (its result is not read by the rule
\* engine), then both reference scans are started by Promise.all
StartReferenceScans ==
    /\ pc = "querying"
    /\ queryIdx > Len(selectedWorkspaces)
    /\ pc' = "fetching"
    /\ alertScan' = [idx |-> 1, tables |-> << >>, finished |-> FALSE]
    /\ dashScan' = [idx |-> 1, tables |-> << >>, finished |-> FALSE]
    /\ UNCHANGED << codecVars, alertRule, server >>
    /\ UNCHANGED << selectedWorkspaces, summaryGlobal, queryIdx, allQueryData,
                    azureRefs, dataSummary, gates, recommendations, outcome >>

\* one subscription of a scan: a failed fetch (response not ok, or an exception
\* caught inside the loop) skips the subscription; a good one adds its tables
ScanStep(scan, found, ok) ==
    [idx |-> scan.idx + 1,
     tables |-> IF ok THEN Unique(scan.tables \o found) ELSE scan.tables,
     finished |-> scan.idx + 1 > Len(SubscriptionIds(selectedWorkspaces))]

\* fetchScheduledQueryRules, lines 1356-1403
FetchScheduledQueryRules ==
    /\ pc = "fetching"
    /\ alertScan.idx >= 1
    /\ ~alertScan.finished
    /\ \E found \in RunReferenceTables, ok \in BOOLEAN :
         /\ alertScan' = ScanStep(alertScan, found, ok)
         /\ azureRefs' = [azureRefs EXCEPT !.alerts = @ \cup Range(found)]
    /\ UNCHANGED << codecVars, alertRule, server >>
    /\ UNCHANGED << pc, selectedWorkspaces, summaryGlobal, queryIdx, allQueryData,
                    dashScan, dataSummary, gates, recommendations, outcome >>

\* fetchDashboardTables, lines 1425-1523
FetchDashboardTables ==
    /\ pc = "fetching"
    /\ dashScan.idx >= 1
    /\ ~dashScan.finished
    /\ \E found \in RunReferenceTables, ok \in BOOLEAN :
         /\ dashScan' = ScanStep(dashScan, found, ok)
         /\ azureRefs' = [azureRefs EXCEPT !.dashboards = @ \cup Range(found)]
    /\ UNCHANGED << codecVars, alertRule, server >>
    /\ UNCHANGED << pc, selectedWorkspaces, summaryGlobal, queryIdx, allQueryData,
                    alertScan, dataSummary, gates, recommendations, outcome >>

\* Promise.all has resolved: both scans returned
Collected == pc = "fetching" /\ alertScan.finished /\ dashScan.finished

\* lines 1166-1169: dataSummary.tablesInAlerts = ..., tablesInDashboards = ...
WithReferences(s, tablesInAlerts, tablesInDashboards) ==
    [totalWorkspaces |-> s.totalWorkspaces,
     workspacesWithData |-> s.workspacesWithData,
     workspacesEmpty |-> s.workspacesEmpty,
     totalIngestionGB |-> s.totalIngestionGB,
     workspaceGB |-> s.workspaceGB,
     laQueryLogsEnabled |-> s.laQueryLogsEnabled,
     laQueryLogsBasicLogs |-> s.laQueryLogsBasicLogs,
     topTables |-> s.topTables,
     frequentlyQueriedTables |-> s.frequentlyQueriedTables,
     tablesInAlerts |-> tablesInAlerts,
     tablesInDashboards |-> tablesInDashboards]

\* lines 1164-1169: the summary with the reference tables attached
CollectedSummary ==
    WithReferences(SummarizeQueryData(allQueryData), alertScan.tables,
                   dashScan.tables)

\* line 1174 reduced to its first disjunct: a faulty variant, under which C8
\* fails
IsNoDataWithoutWorkspaces(ds) == ds.totalWorkspaces = 0

\* line 1174
IsNoData(ds) == ds.totalWorkspaces = 0 \/ ds.workspacesWithData = 0
\* line 1181 with <= 0 for < 1: a faulty variant, under which C9 fails
IsMinimalDataAtMostZero(ds) == ds.totalIngestionGB <= 0

\* line 1181
IsMinimalData(ds) == ds.totalIngestionGB < Tenths(MinimalDataGB)

\* lines 1174-1178: showNoDataResults and return
AnalyzeNoData ==
    /\ Collected
    /\ LET ds == CollectedSummary
       IN /\ IsNoData(ds)
          /\ dataSummary' = ds
    /\ pc' = "done"
    /\ outcome' = "noData"
    /\ UNCHANGED << codecVars, alertRule, server >>
    /\ UNCHANGED << selectedWorkspaces, summaryGlobal, queryIdx, allQueryData,
                    alertScan, dashScan, azureRefs, gates, recommendations >>

\* lines 1181-1185: showMinimalDataResults and return
AnalyzeMinimalData ==
    /\ Collected
    /\ LET ds == CollectedSummary
       IN /\ ~IsNoData(ds)
          /\ IsMinimalData(ds)
          /\ dataSummary' = ds
    /\ pc' = "done"
    /\ outcome' = "minimalData"
    /\ UNCHANGED << codecVars, alertRule, server >>
    /\ UNCHANGED << selectedWorkspaces, summaryGlobal, queryIdx, allQueryData,
                    alertScan, dashScan, azureRefs, gates, recommendations >>

\* the end of a run that would show the cards appended before an exception:
\* a faulty variant, under which C14 fails
FinishWithPartialCards(result) ==
    /\ pc' = "done"
    /\ gates' = result.gates
    /\ outcome' = IF result.threw THEN "analysisFailed" ELSE "shown"
    /\ recommendations' = result.cards

\* what the run ends with once the recommendation text is (not) produced:
\* showRecommendations (line 1214) or the catch of line 1216
Finish(result) ==
    /\ pc' = "done"
    /\ gates' = result.gates
    /\ outcome' = IF result.threw THEN "analysisFailed" ELSE "shown"
    /\ recommendations' = IF result.threw THEN << >> ELSE result.cards

\* lines 1203-1214: no AI settings, the rule-based engine
AnalyzeRuleBased ==
    /\ Collected
    /\ LET ds == CollectedSummary
       IN /\ ~IsNoData(ds)
          /\ ~IsMinimalData(ds)
          /\ dataSummary' = ds
          /\ LET result == GenerateRecommendations(ds, summaryGlobal)
             IN Finish(result)
    /\ UNCHANGED << codecVars, alertRule, server >>
    /\ UNCHANGED << selectedWorkspaces, summaryGlobal, queryIdx, allQueryData,
                    alertScan, dashScan, azureRefs >>

\* lines 1197-1202: AI settings present, the request to Azure OpenAI is sent
AnalyzeWithAI ==
    /\ Collected
    /\ LET ds == CollectedSummary
       IN /\ ~IsNoData(ds)
          /\ ~IsMinimalData(ds)
          /\ dataSummary' = ds
    /\ pc' = "awaitingAI"
    /\ UNCHANGED << codecVars, alertRule, server >>
    /\ UNCHANGED << selectedWorkspaces, summaryGlobal, queryIdx, allQueryData,
                    alertScan, dashScan, azureRefs, gates, recommendations,
                    outcome >>

\* getAIRecommendations returned the model's text (not produced by the engine)
AIAnswered ==
    /\ pc = "awaitingAI"
    /\ pc' = "done"
    /\ outcome' = "shownAI"
    /\ UNCHANGED << codecVars, alertRule, server >>
    /\ UNCHANGED << selectedWorkspaces, summaryGlobal, queryIdx, allQueryData,
                    alertScan, dashScan, azureRefs, dataSummary, gates,
                    recommendations >>

\* getAIRecommendations caught an error: the rule-based fallback
AIFailed ==
    /\ pc = "awaitingAI"
    /\ LET result == AIFallback(dataSummary, summaryGlobal)
       IN Finish(result)
    /\ UNCHANGED << codecVars, alertRule, server >>
    /\ UNCHANGED << selectedWorkspaces, summaryGlobal, queryIdx, allQueryData,
                    alertScan, dashScan, azureRefs, dataSummary >>

Next ==
    \/ RunAnalysisRejected
    \/ RunAnalysisStarted
    \/ QueryWorkspace
    \/ StartReferenceScans
    \/ FetchScheduledQueryRules
    \/ FetchDashboardTables
    \/ AnalyzeNoData
    \/ AnalyzeMinimalData
    \/ AnalyzeRuleBased
    \/ AnalyzeWithAI
    \/ AIAnswered
    \/ AIFailed

Spec == Init /\ [][Next]_vars

(***************************************************************************)
(* The synchronous tail of a run (summarizeQueryData, the terminal-state   *)
(* checks, generateRecommendations) over a wider range of collected data:  *)
(* one workspace, every combination of table volumes, query frequencies    *)
(* and reference tables of the Compose* sets.                              *)
(***************************************************************************)
ComposeInit ==
    /\ NothingShown
    /\ pc = "fetching"
    /\ selectedWorkspaces = << "wsA" >>
    /\ summaryGlobal \in SummaryBindings
    /\ queryIdx = 2
    /\ \E results \in ComposeQueryResults :
         allQueryData = << [name |-> "wsA", results |-> results] >>
    /\ \E found \in ComposeAlertTables :
         alertScan = [idx |-> 2, tables |-> found, finished |-> TRUE]
    /\ \E found \in ComposeDashboardTables :
         dashScan = [idx |-> 2, tables |-> found, finished |-> TRUE]
    /\ azureRefs = [alerts |-> Range(alertScan.tables),
                    dashboards |-> Range(dashScan.tables)]
    /\ dataSummary = NoSummary
    /\ gates = NoGates
    /\ recommendations = << >>
    /\ outcome = "none"
    /\ alertRule = [query |-> << >>, tables |-> << >>, scanned |-> FALSE]
    /\ server = << >>

ComposeNext ==
    \/ AnalyzeNoData
    \/ AnalyzeMinimalData
    \/ AnalyzeRuleBased

SpecCompose == ComposeInit /\ [][ComposeNext]_vars

(***************************************************************************)
(* summarizeQueryData as a function of what queryWorkspace stored: two     *)
(* workspaces whose usage result is any table the Logs API can answer      *)
(* with, not only the answer to the dataVolumeByTable query: the two       *)
(* columns under their names in either order, one or both under another    *)
(* name, no row, and GB cells of either sign.                              *)
(***************************************************************************)
SummarizeVolumeResults ==
    { TableResult(columns, rows) :
        columns \in { VolumeColumns, << "Type", "GB" >>,
                      << "DataType", "Quantity" >>, << "Type", "BillableGB" >> },
        rows \in { << >>, << VolumeRow("Syslog", 3) >>,
                   << VolumeRow("Syslog", 600) >>,
                   << VolumeRow("Syslog", 0 - 50) >>,
                   << VolumeRow("Syslog", 600), VolumeRow("AppTraces", 0 - 50) >> } }
    \cup { TableResult(<< "BillableGB", "DataType" >>, rows) :
             rows \in { << >>, << << Num(600), Str("Syslog") >> >> } }

SummarizeInit ==
    /\ NothingShown
    /\ pc = "fetching"
    /\ selectedWorkspaces = WorkspaceOrder
    /\ summaryGlobal \in SummaryBindings
    /\ queryIdx = 3
    /\ \E a, b \in SummarizeVolumeResults, status \in StatusResults :
         allQueryData =
             << [name |-> "wsA",
                 results |-> QueryResults(a, FrequencyResult(<< >>), status)],
                [name |-> "wsB",
                 results |-> QueryResults(b, FrequencyResult(<< >>), ErrorResult)] >>
    /\ \E found \in RunReferenceTables :
         alertScan = [idx |-> 3, tables |-> found, finished |-> TRUE]
    /\ dashScan = [idx |-> 3, tables |-> << >>, finished |-> TRUE]
    /\ azureRefs = [alerts |-> Range(alertScan.tables), dashboards |-> {}]
    /\ dataSummary = NoSummary
    /\ gates = NoGates
    /\ recommendations = << >>
    /\ outcome = "none"
    /\ alertRule = [query |-> << >>, tables |-> << >>, scanned |-> FALSE]
    /\ server = << >>

SpecSummarize == SummarizeInit /\ [][ComposeNext]_vars

(***************************************************************************)
(* extractTablesFromQuery.  A query text is a sequence of characters; a    *)
(* position is the index of the next character to read, and a position 0   *)
(* returned for the end of a match stands for "no match".                  *)
(***************************************************************************)
\* pattern.exec at position p for the n-th of tablePatterns (lines
\* 1542-1551), all under the i flag, the first also under the m flag: the
\* position after the match and the names of match[1] split on /\s*,\s*/,
\* or end 0.  The alternatives are tried in the order of a backtracking
\* matcher: the longest identifier first, then the longest white space.
Matches(n, s, p) ==
    LET letters == Range(UpperCaseLetters) \cup Range(LowerCaseLetters)
        word == letters \cup {"0","1","2","3","4","5","6","7","8","9","_"}
        space == {" ", "\n", "\t"}
        NoMatch == [end |-> 0, names |-> << >>]
        Match(end, names) == [end |-> end, names |-> names]
        At(q) == IF q >= 1 /\ q <= Len(s) THEN s[q] ELSE ""
        \* the position after the longest run of characters of a class
        Run(q, class) ==
            CHOOSE e \in q..(Len(s) + 1) :
                /\ \A k \in q..(e - 1) : s[k] \in class
                /\ At(e) \notin class
        NotEmpty(q, e) == IF e > q THEN e ELSE 0
        \* \s* , \s+ , \w+ and one character from q; from 0, 0
        Spaces(q) == IF q = 0 THEN 0 ELSE Run(q, space)
        Spaces1(q) == IF q = 0 THEN 0 ELSE NotEmpty(q, Run(q, space))
        Words1(q) == IF q = 0 THEN 0 ELSE NotEmpty(q, Run(q, word))
        Char(q, c) == IF q # 0 /\ At(q) = c THEN q + 1 ELSE 0
        \* ["']? from q
        Quote(q) == IF q # 0 /\ At(q) \in {"\"", "'"} THEN q + 1 ELSE q
        \* a literal from q, compared without regard to case
        Literal(q, w) ==
            IF /\ q >= 1
               /\ q + Len(w) - 1 <= Len(s)
               /\ \A k \in 1..Len(w) : LowerChar(s[q + k - 1]) = w[k]
            THEN q + Len(w) ELSE 0
        \* [A-Z][a-zA-Z0-9_]+ from q, [A-Z] being any letter under the i flag
        Identifier(q) ==
            IF q # 0 /\ At(q) \in letters THEN NotEmpty(q + 1, Run(q + 1, word)) ELSE 0
        Name(from) == SubSeq(s, from, Identifier(from) - 1)
        \* (?:kind\s*=\s*\w+\s+) from q
        Kind(q) ==
            Spaces1(Words1(Spaces(Char(Spaces(Literal(q, Spelling("kind"))), "="))))
        \* (?:kind...)?([A-Z][a-zA-Z0-9_]+) from q: where the identifier starts
        AfterKind(q) ==
            IF Identifier(Kind(q)) # 0 THEN Kind(q)
            ELSE IF Identifier(q) # 0 THEN q
            ELSE 0
        \* (?:\||$|where|...|evaluate) from q
        OneOf(q, literals) ==
            IF literals = {} THEN 0 ELSE Literal(q, CHOOSE w \in literals : TRUE)
        Terminated(q) ==
            IF At(q) = "|" THEN q + 1
            ELSE IF q = Len(s) + 1 \/ At(q) = "\n" THEN q
            ELSE OneOf(q, { w \in { Spelling(t) :
                                      t \in {"where", "project", "summarize", "extend",
                                             "join", "take", "top", "limit", "order",
                                             "sort", "distinct", "count", "mv-expand",
                                             "parse", "evaluate"} } :
                              Literal(q, w) # 0 })
        \* \s*([A-Z][a-zA-Z0-9_]+)\s*(?:...) from q: of the ways to end the
        \* identifier and the white space before a terminator, the first
        First(ways) ==
            CHOOSE w \in ways : \A x \in ways : \/ x[1] < w[1]
                                                \/ x[1] = w[1] /\ x[2] <= w[2]
        PipedAs(from, ways) ==
            IF ways = {} THEN NoMatch
            ELSE Match(Terminated(First(ways)[2]),
                       << SubSeq(s, from, First(ways)[1] - 1) >>)
        PipedTo(from, end) ==
            IF end = 0 THEN NoMatch
            ELSE PipedAs(from, { w \in ((from + 2)..end) \X (from..(Len(s) + 1)) :
                                   /\ w[2] >= w[1]
                                   /\ w[2] <= Run(w[1], space)
                                   /\ Terminated(w[2]) # 0 })
        PipedFrom(from) == PipedTo(from, Identifier(from))
        Piped(q) == PipedFrom(Run(q, space))
        Else(a, b) == IF a.end # 0 THEN a ELSE b
        \* [A-Z][a-zA-Z0-9_]+(?:\s*,\s*[A-Z][a-zA-Z0-9_]+)* from an identifier:
        \* the text up to e is a list when it is made of identifiers with
        \* one comma, and white space, between each two; the match is the
        \* longest list, its names are the identifiers in their order
        StartsName(from, k) == At(k) \in word /\ (k = from \/ At(k - 1) \notin word)
        IsList(from, e) ==
            /\ At(e) \notin word
            /\ At(e - 1) \in word
            /\ \A k \in from..(e - 1) :
                  /\ s[k] \in word \cup space \cup {","}
                  /\ StartsName(from, k) => Identifier(k) # 0
                  /\ (k > from /\ StartsName(from, k)) =>
                        Cardinality({ j \in from..k :
                                        /\ s[j] = ","
                                        /\ \A i \in j..(k - 1) : s[i] \notin word }) = 1
        ListOf(end, starts) ==
            Match(end, [i \in 1..Cardinality(starts) |->
                           Name(CHOOSE k \in starts :
                                   Cardinality({ x \in starts : x < k }) = i - 1)])
        ListTo(from, end) ==
            ListOf(end, { k \in from..(end - 1) : StartsName(from, k) })
        List(from) ==
            IF from = 0 THEN NoMatch
            ELSE ListTo(from, CHOOSE e \in (from + 2)..(Len(s) + 1) :
                                 /\ IsList(from, e)
                                 /\ \A x \in (e + 1)..(Len(s) + 1) : ~IsList(from, x))
        \* table\s*\(\s*["']?(...)["']?\s*\)
        Closed(from, close) ==
            IF close = 0 THEN NoMatch ELSE Match(close, << Name(from) >>)
        Called(from) ==
            Closed(from, Char(Spaces(Quote(Identifier(from))), ")"))
        \* join\s+(?:kind...)?(...)
        Joined(from) ==
            IF from = 0 THEN NoMatch ELSE Match(Identifier(from), << Name(from) >>)
    IN CASE n = 1 ->
              Else(IF p = 1 \/ At(p - 1) = "\n" THEN Piped(p) ELSE NoMatch,
                   IF At(p) = "|" THEN Piped(p + 1) ELSE NoMatch)
         [] n = 2 -> List(AfterKind(Spaces1(Literal(p, Spelling("union")))))
         [] n = 3 ->
              Called(Quote(Spaces(Char(Spaces(Literal(p, Spelling("table"))), "("))))
         [] n = 4 -> Joined(AfterKind(Spaces1(Literal(p, Spelling("join")))))

\* a faulty variant, under which C21 fails: only the empty name is dropped
IsNotEmpty(tableName) == tableName # << >>

\* lines 1560-1566: tableName && !keywords.includes(tableName.toLowerCase())
\* && /^[A-Z][a-zA-Z0-9_]+$/.test(tableName) && tableName.length > 2
IsTableName(tableName) ==
    LET keywords ==
            { Spelling(w) :
                w \in {"where", "project", "summarize", "extend", "join", "take",
                       "top", "limit", "order", "sort", "distinct", "count",
                       "let", "set", "print", "render", "ago", "now", "datetime",
                       "timespan", "true", "false", "null", "and", "or", "not"} }
    IN /\ tableName # << >>
       /\ ToLowerCase(tableName) \notin keywords
       /\ tableName[1] \in Range(UpperCaseLetters)
       /\ Len(tableName) >= 2
       /\ \A k \in 2..Len(tableName) :
             tableName[k] \in Range(UpperCaseLetters) \cup Range(LowerCaseLetters)
                              \cup {"0","1","2","3","4","5","6","7","8","9","_"}
       /\ Len(tableName) > 2

\* extractTablesFromQuery(query): each pattern in turn, exec until null from
\* lastIndex on; tables is the Set, in insertion order
extractTablesFromQuery(query) ==
    LET \* the names handed to tables.add, each under its pattern, the start
        \* of its match and its place in the split of match[1]
        Before(a, b) ==
            \/ a[1] < b[1]
            \/ a[1] = b[1] /\ a[2] < b[2]
            \/ a[1] = b[1] /\ a[2] = b[2] /\ a[3] < b[3]
        InOrder(m, kept) ==
            [i \in 1..Cardinality(kept) |->
                LET a == CHOOSE a \in kept :
                            Cardinality({ b \in kept : Before(b, a) }) = i - 1
                IN m[a[1]][a[2]].names[a[3]]]
        Kept(m, captured) ==
            InOrder(m, { a \in captured :
                           /\ IsTableName(m[a[1]][a[2]].names[a[3]])
                           /\ ~\E b \in captured :
                                  /\ Before(b, a)
                                  /\ m[b[1]][b[2]].names[b[3]] = m[a[1]][a[2]].names[a[3]] })
        \* the matches exec returns for a pattern: a match begins at the
        \* first position, from lastIndex on, where the pattern matches
        Found(at, matching) ==
            CHOOSE found \in SUBSET matching :
                \A p \in matching :
                    p \in found <=> ~\E q \in found : q < p /\ p < at[q].end
        Captured(m) ==
            Kept(m, UNION { UNION { { << n, p, k >> : k \in 1..Len(m[n][p].names) } :
                                    p \in Found(m[n], { p \in 1..Len(query) :
                                                          m[n][p].end # 0 }) } :
                            n \in 1..4 })
    IN IF query = << >> THEN << >>
       ELSE Captured([n \in 1..4 |-> [p \in 1..Len(query) |-> Matches(n, query, p)]])

\* lines 1386-1387 of fetchScheduledQueryRules: the query of an alert rule
\* that targets a selected workspace is handed to the extractor.  The query
\* texts:
\*   X | where TimeGenerated > ago(1h) | summarize count() by Computer
\*   X (newline) | where Computer == Y
\*   union X, Y | count        union kind=inner X , Y
\*   X | join kind=inner Y on Computer      X | join Y on Computer
\*   table("X") | take 5       table( 'X' )       Xcount | take 5
\* for X and Y among table names, a lower-case name, a two-letter name and a
\* capitalised keyword; and the empty query.
ExtractTablesOfRule ==
    /\ ~alertRule.scanned
    /\ LET names == {"Heartbeat", "Syslog", "Debug_CL", "heartbeat", "Ab", "Where", "Event"}
           Spaced(word) == << " " >> \o Spelling(word) \o << " " >>
           queries ==
               { << >> }
               \cup { Spelling(X) \o << " ", "|" >> \o Spaced("where")
                        \o Spelling("TimeGenerated") \o << " ", ">", " " >>
                        \o Spelling("ago") \o << "(", "1", "h", ")", " ", "|" >>
                        \o Spaced("summarize") \o Spelling("count") \o << "(", ")" >>
                        \o Spaced("by") \o Spelling("Computer") : X \in names }
               \cup { Spelling(X) \o << "\n", "|" >> \o Spaced("where")
                        \o Spelling("Computer") \o << " ", "=", "=", " " >>
                        \o Spelling(Y) : X \in names, Y \in names }
               \cup { Spelling("union") \o << " " >> \o Spelling(X) \o << ",", " " >>
                        \o Spelling(Y) \o << " ", "|", " " >> \o Spelling("count") :
                        X \in names, Y \in names }
               \cup { Spelling("union") \o << " " >> \o Spelling("kind") \o << "=" >>
                        \o Spelling("inner") \o << " " >> \o Spelling(X)
                        \o << " ", ",", " " >> \o Spelling(Y) : X \in names, Y \in names }
               \cup { Spelling(X) \o << " ", "|" >> \o Spaced("join") \o Spelling("kind")
                        \o << "=" >> \o Spelling("inner") \o << " " >> \o Spelling(Y)
                        \o Spaced("on") \o Spelling("Computer") : X \in names, Y \in names }
               \cup { Spelling(X) \o << " ", "|" >> \o Spaced("join") \o Spelling(Y)
                        \o Spaced("on") \o Spelling("Computer") : X \in names, Y \in names }
               \cup { Spelling("table") \o << "(", "\"" >> \o Spelling(X)
                        \o << "\"", ")", " ", "|" >> \o Spaced("take") \o << "5" >> :
                        X \in names }
               \cup { Spelling("table") \o << "(", " ", "'" >> \o Spelling(X)
                        \o << "'", " ", ")" >> : X \in names }
               \cup { Spelling(X) \o Spelling("count") \o << " ", "|" >> \o Spaced("take")
                        \o << "5" >> : X \in names }
       IN \E query \in queries :
             alertRule' = [query |-> query,
                           tables |-> extractTablesFromQuery(query),
                           scanned |-> TRUE]
    /\ UNCHANGED << pc, selectedWorkspaces, summaryGlobal, queryIdx, allQueryData,
                    alertScan, dashScan, azureRefs, dataSummary, gates,
                    recommendations, outcome, codecVars, server >>

SpecExtract == Init /\ [][ExtractTablesOfRule]_vars

(***************************************************************************)
(* server.js: the device-code sessions and the endpoints.  A handler is    *)
(* one action up to its await on a value another request can change        *)
(* meanwhile; only the status handler reads the session store before such  *)
(* an await and writes it after.                                           *)
(***************************************************************************)

\* server.js after startup (lines 43-47, 454): userSessions = new Map(), the
\* Azure CLI credential created or not, no request received, the page idle.
\*   sessions  userSessions: per session id the session object stored under
\*             it, 0 when the id is absent.  A session object is identified
\*             by the number of the DeviceCodeCredential created for it.
\*   objects   the session objects: status, and the state of tokenPromise
\*             ("waiting" until the user completes the device-code sign-in
\*             and it resolves, or the flow fails and it rejects)
\*   created   the number of session objects created
\*   cli       cliCredential is set
\*   polling   the status requests awaiting Promise.race, each holding the
\*             session id and the session object it read before the await
\*   response  the body of the last response sent: per field its name,
\*             whether it holds a literal or a value, and which
\*   served    the credential getCredentialForRequest returned to the last
\*             request handled
\*   revoked   the session objects removed from the store by a logout
MaxCredentials == 2
ServerInit ==
    /\ NothingShown
    /\ pc = "idle"
    /\ selectedWorkspaces = << >>
    /\ summaryGlobal = [bound |-> FALSE, laQueryLogsBasicLogs |-> FALSE]
    /\ queryIdx = 0
    /\ allQueryData = << >>
    /\ alertScan = ScanNotStarted
    /\ dashScan = ScanNotStarted
    /\ azureRefs = [alerts |-> {}, dashboards |-> {}]
    /\ dataSummary = NoSummary
    /\ gates = NoGates
    /\ recommendations = << >>
    /\ outcome = "none"
    /\ alertRule = [query |-> << >>, tables |-> << >>, scanned |-> FALSE]
    /\ \E cli \in BOOLEAN :
          server = [sessions |-> [s \in {"s1", "s2"} |-> 0],
                    objects |-> [c \in 1..MaxCredentials |->
                                    [status |-> "none", token |-> "waiting"]],
                    created |-> 0,
                    cli |-> cli,
                    polling |-> {},
                    response |-> {},
                    served |-> [by |-> "none", credential |-> 0],
                    revoked |-> {}]

\* POST /api/auth/device-code, lines 63-107.  The session id is the one the
\* body supplies, or a generated one (an id not in the store); the session
\* object is stored under it whatever the store holds.
DeviceCode ==
    /\ \E sessionId \in DOMAIN server.sessions, supplied \in BOOLEAN,
          deviceCode \in {"info", "none", "thrown"} :
          /\ ~supplied => server.sessions[sessionId] = 0
          /\ IF deviceCode = "info"
             THEN /\ server.created < MaxCredentials
                  /\ server' =
                        [server EXCEPT
                           !.created = @ + 1,
                           !.objects[server.created + 1] =
                               [status |-> "pending", token |-> "waiting"],
                           !.sessions[sessionId] = server.created + 1,
                           !.response = {<< "sessionId", "value", "sessionId" >>,
                                         << "userCode", "value", "info.userCode" >>,
                                         << "verificationUri", "value",
                                            "info.verificationUri" >>,
                                         << "message", "value", "info.message" >>},
                           !.served = [by |-> "none", credential |-> 0]]
             ELSE server' =
                     [server EXCEPT
                        !.response =
                            IF deviceCode = "none"
                            THEN {<< "error", "literal", "Failed to get device code" >>}
                            ELSE {<< "error", "value", "error.message" >>},
                        !.served = [by |-> "none", credential |-> 0]]
    /\ UNCHANGED << pc, selectedWorkspaces, summaryGlobal, queryIdx, allQueryData,
                    alertScan, dashScan, azureRefs, dataSummary, gates,
                    recommendations, outcome, codecVars, alertRule >>

\* GET /api/auth/status/:sessionId up to the await, lines 110-123
StatusRequested ==
    /\ \E sessionId \in DOMAIN server.sessions :
          IF server.sessions[sessionId] = 0
          THEN server' = [server EXCEPT
                            !.response = {<< "status", "literal", "not_found" >>},
                            !.served = [by |-> "none", credential |-> 0]]
          ELSE IF server.objects[server.sessions[sessionId]].status = "authenticated"
          THEN server' = [server EXCEPT
                            !.response = {<< "status", "literal", "authenticated" >>},
                            !.served = [by |-> "none", credential |-> 0]]
          ELSE /\ << sessionId, server.sessions[sessionId] >> \notin server.polling
               /\ server' = [server EXCEPT
                               !.polling = @ \cup {<< sessionId,
                                                      server.sessions[sessionId] >>},
                               !.served = [by |-> "none", credential |-> 0]]
    /\ UNCHANGED << pc, selectedWorkspaces, summaryGlobal, queryIdx, allQueryData,
                    alertScan, dashScan, azureRefs, dataSummary, gates,
                    recommendations, outcome, codecVars, alertRule >>

\* GET /api/auth/status/:sessionId from the await on, lines 124-141: the
\* race is won by the token (held in a local constant and dropped), by the
\* one-second timeout, or by the rejection of tokenPromise
StatusAnswered ==
    /\ \E request \in server.polling :
          \E token \in IF server.objects[request[2]].token = "waiting"
                       THEN {"waiting", "resolved", "rejected"}
                       ELSE {server.objects[request[2]].token} :
             server' =
                [server EXCEPT
                   !.polling = @ \ {request},
                   !.objects[request[2]] =
                       [status |-> IF token = "resolved" THEN "authenticated"
                                   ELSE @.status,
                        token |-> token],
                   !.sessions[request[1]] =
                       IF token = "resolved" THEN request[2] ELSE @,
                   !.response =
                       CASE token = "resolved" ->
                              {<< "status", "literal", "authenticated" >>}
                         [] token = "waiting" ->
                              {<< "status", "literal", "pending" >>}
                         [] token = "rejected" ->
                              {<< "status", "literal", "error" >>,
                               << "error", "value", "error.message" >>},
                   !.served = [by |-> "none", credential |-> 0]]
    /\ UNCHANGED << pc, selectedWorkspaces, summaryGlobal, queryIdx, allQueryData,
                    alertScan, dashScan, azureRefs, dataSummary, gates,
                    recommendations, outcome, codecVars, alertRule >>

\* POST /api/auth/logout, lines 145-151; "" is a body without sessionId
Logout ==
    /\ \E sessionId \in DOMAIN server.sessions \cup {""} :
          server' =
             [server EXCEPT
                !.sessions = [s \in DOMAIN @ |-> IF s = sessionId THEN 0 ELSE @[s]],
                !.revoked = @ \cup { server.sessions[s] :
                                       s \in { x \in DOMAIN server.sessions :
                                                 /\ x = sessionId
                                                 /\ server.sessions[x] # 0 } },
                !.response = {<< "success", "literal", "true" >>},
                !.served = [by |-> "none", credential |-> 0]]
    /\ UNCHANGED << pc, selectedWorkspaces, summaryGlobal, queryIdx, allQueryData,
                    alertScan, dashScan, azureRefs, dataSummary, gates,
                    recommendations, outcome, codecVars, alertRule >>

\* GET /api/subscriptions, GET /api/subscriptions/:id/workspaces and
\* POST /api/query, lines 177-278, with getCredentialForRequest, lines
\* 154-170; "" is a request without the x-session-id header
ApiRequest ==
    /\ \E sessionId \in DOMAIN server.sessions \cup {""},
          endpoint \in {"subscriptions", "workspaces", "query"},
          result \in {"listed", "thrown", "incomplete"} :
          LET ofSession ==
                  { server.sessions[s] :
                      s \in { x \in DOMAIN server.sessions :
                                /\ x = sessionId
                                /\ server.sessions[x] # 0
                                /\ server.objects[server.sessions[x]].status
                                      = "authenticated" } }
              creds ==
                  IF ofSession # {}
                  THEN [by |-> "session", credential |-> CHOOSE c \in ofSession : TRUE]
                  ELSE IF server.cli THEN [by |-> "cli", credential |-> 0]
                  ELSE [by |-> "none", credential |-> 0]
          IN /\ result = "incomplete" => endpoint = "query"
             /\ server' =
                   [server EXCEPT
                      !.served = creds,
                      !.response =
                          CASE creds.by = "none" ->
                                 {<< "error", "literal",
                                     "Not authenticated. Please sign in." >>}
                            [] creds.by # "none" /\ result = "incomplete" ->
                                 {<< "error", "literal",
                                     "workspaceId and queries are required" >>}
                            [] creds.by # "none" /\ result = "thrown" ->
                                 {<< "error", "value", "error.message" >>}
                            [] creds.by # "none" /\ result = "listed" ->
                                 {<< endpoint, "value", endpoint >>}]
    /\ UNCHANGED << pc, selectedWorkspaces, summaryGlobal, queryIdx, allQueryData,
                    alertScan, dashScan, azureRefs, dataSummary, gates,
                    recommendations, outcome, codecVars, alertRule >>

\* POST /api/recommendations, lines 281-349: the key goes into the api-key
\* header of the outgoing request only
Recommendations ==
    /\ \E result \in {"unconfigured", "content", "status", "message", "limit",
                      "thrown"} :
          server' =
             [server EXCEPT
                !.served = [by |-> "none", credential |-> 0],
                !.response =
                    CASE result = "unconfigured" ->
                           {<< "error", "literal", "AI model is not configured" >>}
                      [] result = "content" ->
                           {<< "recommendations", "value",
                               "data.choices[0].message.content" >>}
                      [] result = "status" ->
                           {<< "error", "value", "response.status" >>}
                      [] result = "message" ->
                           {<< "error", "value", "errorJson.error.message" >>}
                      [] result = "limit" ->
                           {<< "error", "literal", "Rate limit exceeded" >>}
                      [] result = "thrown" ->
                           {<< "error", "literal", "Internal server error" >>}]
    /\ UNCHANGED << pc, selectedWorkspaces, summaryGlobal, queryIdx, allQueryData,
                    alertScan, dashScan, azureRefs, dataSummary, gates,
                    recommendations, outcome, codecVars, alertRule >>

\* a faulty variant, under which C27 fails: the health report carries the
\* key of model1 instead of whether there is one
HealthWithKey ==
    /\ server' =
          [server EXCEPT
             !.served = [by |-> "none", credential |-> 0],
             !.response = {<< "status", "literal", "healthy" >>,
                           << "azureAuthenticated", "value", "azureAuthenticated" >>,
                           << "model1", "value", "model1.apiKey" >>,
                           << "model2", "value", "!!model2.apiKey" >>}]
    /\ UNCHANGED << pc, selectedWorkspaces, summaryGlobal, queryIdx, allQueryData,
                    alertScan, dashScan, azureRefs, dataSummary, gates,
                    recommendations, outcome, codecVars, alertRule >>

\* GET /api/health, lines 352-373: azureAuthenticated is a boolean, the
\* models are reported as !!apiKey
Health ==
    /\ server' =
          [server EXCEPT
             !.served = [by |-> "none", credential |-> 0],
             !.response = {<< "status", "literal", "healthy" >>,
                           << "azureAuthenticated", "value", "azureAuthenticated" >>,
                           << "model1", "value", "!!model1.apiKey" >>,
                           << "model2", "value", "!!model2.apiKey" >>}]
    /\ UNCHANGED << pc, selectedWorkspaces, summaryGlobal, queryIdx, allQueryData,
                    alertScan, dashScan, azureRefs, dataSummary, gates,
                    recommendations, outcome, codecVars, alertRule >>

SpecServer ==
    /\ ServerInit
    /\ [][\/ DeviceCode
          \/ StatusRequested
          \/ StatusAnswered
          \/ Logout
          \/ ApiRequest
          \/ Recommendations
          \/ Health]_vars

(***************************************************************************)
(* The card markup.  showRecommendations hands the recommendation text to  *)
(* formatMarkdown and the Markdown export reads the resulting elements.    *)
(* Two scripts differ in both:                                             *)
(*   "part_001": formatMarkdown (1348), wrapInDefaultCards (1406),         *)
(*               htmlToMarkdown (1527)                                     *)
(*   "part_002": formatMarkdown (2309), copyRecommendationsAsMarkdown      *)
(*               (2567)                                                    *)
(* A text is a sequence of tokens: the bracketed tags, the white-space     *)
(* tokens " " and "\n", and words.  A word holds no white space, bracket,  *)
(* digit, '#', '*', '|' or backquote, so the replacements of headers,      *)
(* numbered lists, emphasis, tables and code never apply and the regular   *)
(* expressions over characters become scans over tokens.  "(emoji)" is a   *)
(* character of the emoji class of part_002 line 2345.  The content of an  *)
(* element is a sequence of nodes; white space between nodes is not kept.  *)
(***************************************************************************)
\* the alternatives of /\[CARD:(warning|savings|info|success)\]/
CardTagKind ==
    ("[CARD:warning]" :> "warning") @@ ("[CARD:savings]" :> "savings")
    @@ ("[CARD:info]" :> "info") @@ ("[CARD:success]" :> "success")

\* the tokens that contain '[CARD:'
CardOpeners == DOMAIN CardTagKind \cup {"[CARD:tip]"}

icons ==
    [warning |-> "(warning sign)", savings |-> "(money bag)",
     info |-> "(information)", success |-> "(check mark)"]

\* String.prototype.trim
Trim(s) ==
    LET inked == {i \in 1..Len(s) : s[i] \notin {" ", "\n"}}
    IN IF inked = {} THEN << >>
       ELSE SubSeq(s, CHOOSE i \in inked : \A k \in inked : i <= k,
                      CHOOSE i \in inked : \A k \in inked : i >= k)

\* body.replace(/\[X\]([\s\S]*?)\[\/X\]/g, (m, v) => { x = v.trim(); return ''; })
\* the last match sets the value, every match is removed from the body
RECURSIVE ExtractTag(_, _, _, _)
ExtractTag(s, open, close, acc) ==
    IF s = << >> THEN acc
    ELSE IF Head(s) = open /\ \E i \in 2..Len(s) : s[i] = close
    THEN ExtractTag(
             SubSeq(s, 1 + (CHOOSE i \in 2..Len(s) :
                               s[i] = close /\ \A j \in 2..(i - 1) : s[j] # close),
                    Len(s)),
             open, close,
             [value |-> Trim(SubSeq(s, 2, (CHOOSE i \in 2..Len(s) :
                               s[i] = close /\ \A j \in 2..(i - 1) : s[j] # close) - 1)),
              rest |-> acc.rest])
    ELSE ExtractTag(Tail(s), open, close, [acc EXCEPT !.rest = Append(@, Head(s))])

CardFieldTags ==
    << << "title", "[TITLE]", "[/TITLE]" >>, << "impact", "[IMPACT]", "[/IMPACT]" >>,
       << "action", "[ACTION]", "[/ACTION]" >>, << "docs", "[DOCS]", "[/DOCS]" >> >>

\* the four extractions in turn, then body = body.trim()
RECURSIVE CardFields(_, _, _)
CardFields(body, n, fields) ==
    IF n > Len(CardFieldTags) THEN [fields EXCEPT !.body = Trim(body)]
    ELSE LET m == ExtractTag(body, CardFieldTags[n][2], CardFieldTags[n][3],
                             [value |-> << >>, rest |-> << >>])
         IN CardFields(m.rest, n + 1, [fields EXCEPT ![CardFieldTags[n][1]] = m.value])

\* part_002 lines 2344-2345, on the trimmed title: white space becomes single
\* spaces, the leading emoji and the white space after them are removed.
\* phase 0: within the leading emoji, 1: in the white space after them, 2: after
RECURSIVE NormalizeTitle(_, _, _)
NormalizeTitle(s, acc, phase) ==
    IF s = << >> THEN acc
    ELSE IF phase = 0 /\ Head(s) = "(emoji)" THEN NormalizeTitle(Tail(s), acc, 0)
    ELSE IF phase <= 1 /\ Head(s) \in {" ", "\n"} THEN NormalizeTitle(Tail(s), acc, 1)
    ELSE IF Head(s) \in {" ", "\n"}
    THEN NormalizeTitle(Tail(s),
                        IF acc # << >> /\ acc[Len(acc)] = " " THEN acc
                        ELSE Append(acc, " "), 2)
    ELSE NormalizeTitle(Tail(s), Append(acc, Head(s)), 2)

\* formatCardBody on a text of words: the non-empty lines, trimmed, one <p> each
RECURSIVE FormatCardBody(_, _, _)
FormatCardBody(s, line, out) ==
    IF s = << >>
    THEN (IF Trim(line) = << >> THEN out ELSE Append(out, Trim(line)))
    ELSE IF Head(s) = "\n"
    THEN FormatCardBody(Tail(s), << >>,
                        IF Trim(line) = << >> THEN out ELSE Append(out, Trim(line)))
    ELSE FormatCardBody(Tail(s), Append(line, Head(s)), out)

\* the element built for one card: part_001 lines 1380-1390 give it the class
\* rec-card, part_002 lines 2355-2361 only an inline style
CardElement(scriptName, kind, f) ==
    LET title == IF scriptName = "part_002" THEN NormalizeTitle(f.title, << >>, 0)
                 ELSE f.title
    IN [node |-> "div",
        class |-> IF scriptName = "part_001" THEN "rec-card" ELSE "",
        kind |-> kind,
        icon |-> icons[kind],
        title |-> IF title = << >> THEN << "Recommendation" >> ELSE title,
        impact |-> f.impact,
        body |-> FormatCardBody(f.body, << >>, << >>),
        action |-> f.action,
        docs |-> f.docs]

\* text.replace(/\[CARD:(warning|savings|info|success)\]([\s\S]*?)\[\/CARD\]/g, ...)
\* a card runs from a tag of a known kind to the first [/CARD] after it
RECURSIVE ReplaceCards(_, _, _)
ReplaceCards(s, scriptName, acc) ==
    IF s = << >> THEN acc
    ELSE IF Head(s) \in DOMAIN CardTagKind /\ \E i \in 2..Len(s) : s[i] = "[/CARD]"
    THEN ReplaceCards(
             SubSeq(s, 1 + (CHOOSE i \in 2..Len(s) :
                               s[i] = "[/CARD]" /\ \A j \in 2..(i - 1) : s[j] # "[/CARD]"),
                    Len(s)),
             scriptName,
             Append(acc,
                    CardElement(scriptName, CardTagKind[Head(s)],
                           CardFields(SubSeq(s, 2, (CHOOSE i \in 2..Len(s) :
                               s[i] = "[/CARD]" /\ \A j \in 2..(i - 1) : s[j] # "[/CARD]") - 1),
                               1,
                               [title |-> << >>, impact |-> << >>, action |-> << >>,
                                docs |-> << >>, body |-> << >>]))))
    ELSE ReplaceCards(Tail(s), scriptName, Append(acc, [node |-> "text", text |-> Head(s)]))

\* wrapInDefaultCards on a text without '#' headers: one section
WrapInDefaultCards(text) ==
    IF Trim(text) = << >>
    THEN << "[CARD:info]", "\n", "[TITLE]", "Analysis", " ", "Results", "[/TITLE]", "\n" >>
         \o text \o << "\n", "[/CARD]" >>
    ELSE LET body == ExtractTag(Trim(text), "[ACTION]", "[/ACTION]",
                                [value |-> << >>, rest |-> << >>])
         IN << IF "savings" \in Range(text) THEN "[CARD:savings]" ELSE "[CARD:info]",
               "\n", "[TITLE]", "Analysis", "[/TITLE]", "\n" >>
            \o Trim(body.rest) \o << "\n" >>
            \o (IF body.value # << >>
                THEN << "[ACTION]" >> \o body.value \o << "[/ACTION]", "\n" >>
                ELSE << >>)
            \o << "[/CARD]", "\n", "\n" >>

\* does the HTML of the node contain a '[' ?
Bracketed(n) ==
    LET tags == CardOpeners
                \cup {"[/CARD]", "[TITLE]", "[/TITLE]", "[IMPACT]", "[/IMPACT]",
                      "[ACTION]", "[/ACTION]", "[DOCS]", "[/DOCS]"}
    IN IF n.node = "text" THEN n.text \in tags
       ELSE \E t \in tags :
                \/ t \in Range(n.title) \cup Range(n.impact) \cup Range(n.action)
                         \cup Range(n.docs)
                \/ \E i \in 1..Len(n.body) : t \in Range(n.body[i])

\* text.replace(/\[X\][^\[]*\[\/X\]/g, '') of part_002 lines 2384-2385
RECURSIVE RemoveRuns(_, _, _, _)
RemoveRuns(nodes, open, close, acc) ==
    IF nodes = << >> THEN acc
    ELSE IF /\ Head(nodes) = [node |-> "text", text |-> open]
            /\ \E i \in 2..Len(nodes) :
                   /\ nodes[i] = [node |-> "text", text |-> close]
                   /\ \A j \in 2..(i - 1) : ~Bracketed(nodes[j])
    THEN RemoveRuns(
             SubSeq(nodes, 1 + (CHOOSE i \in 2..Len(nodes) :
                                   /\ nodes[i] = [node |-> "text", text |-> close]
                                   /\ \A j \in 2..(i - 1) : ~Bracketed(nodes[j])),
                    Len(nodes)),
             open, close, acc)
    ELSE RemoveRuns(Tail(nodes), open, close, Append(acc, Head(nodes)))

\* formatMarkdown.  part_001: wrap a text without '[CARD:', replace the cards,
\* then formatCardBody on what is left.  part_002: replace the cards, then
\* remove the unmatched card tags and the [TITLE] and [IMPACT] runs (the
\* standalone [ACTION] and [DOCS] of lines 2366-2373 need such a tag outside a
\* card, and the removals of '---' lines and of blank lines (2311-2312, 2376)
\* change white space only, which the nodes do not keep).
FormatMarkdown(scriptName, text) ==
    IF scriptName = "part_001"
    THEN SelectSeq(
             ReplaceCards(IF \E i \in 1..Len(text) : text[i] \in CardOpeners
                          THEN text ELSE WrapInDefaultCards(text),
                          scriptName, << >>),
             LAMBDA n : n.node = "div" \/ n.text \notin {" ", "\n"})
    ELSE SelectSeq(
             RemoveRuns(
                 RemoveRuns(
                     SelectSeq(ReplaceCards(text, scriptName, << >>),
                               LAMBDA n : n.node = "div"
                                          \/ n.text \notin CardOpeners \cup {"[/CARD]"}),
                     "[TITLE]", "[/TITLE]", << >>),
                 "[IMPACT]", "[/IMPACT]", << >>),
             LAMBDA n : n.node = "div" \/ n.text \notin {" ", "\n"})

\* htmlToMarkdown of part_001: heading with icon and title, impact, body,
\* action and documentation link of every element of class rec-card
HtmlToMarkdown(nodes) ==
    LET cards == SelectSeq(nodes, LAMBDA n : n.node = "div" /\ n.class = "rec-card")
    IN
    [i \in 1..Len(cards) |->
        [icon |-> cards[i].icon, title |-> cards[i].title,
         impact |-> cards[i].impact, body |-> cards[i].body,
         action |-> cards[i].action, docs |-> cards[i].docs]]

\* copyRecommendationsAsMarkdown of part_002: the same without the
\* documentation link
CopyAsMarkdown(nodes) ==
    LET cards == SelectSeq(nodes, LAMBDA n : n.node = "div" /\ n.class = "rec-card")
    IN
    [i \in 1..Len(cards) |->
        [icon |-> cards[i].icon, title |-> cards[i].title,
         impact |-> cards[i].impact, body |-> cards[i].body,
         action |-> cards[i].action, docs |-> << >>]]

\* the markup generateRecommendations writes for one card (as at lines
\* 1783-1797): absent fields are left out
CardMarkup(c) ==
    << CHOOSE t \in DOMAIN CardTagKind : CardTagKind[t] = c.kind, "\n", "[TITLE]" >>
    \o c.title \o << "[/TITLE]", "\n" >>
    \o (IF c.impact # << >> THEN << "[IMPACT]" >> \o c.impact \o << "[/IMPACT]", "\n" >>
        ELSE << >>)
    \o << "\n" >> \o c.body \o << "\n", "\n" >>
    \o (IF c.action # << >> THEN << "[ACTION]" >> \o c.action \o << "[/ACTION]", "\n" >>
        ELSE << >>)
    \o (IF c.docs # << >> THEN << "[DOCS]" >> \o c.docs \o << "[/DOCS]", "\n" >>
        ELSE << >>)
    \o << "[/CARD]", "\n", "\n" >>

RECURSIVE RenderMarkup(_)
RenderMarkup(cards) ==
    IF cards = << >> THEN << >> ELSE CardMarkup(Head(cards)) \o RenderMarkup(Tail(cards))

\* cards as the rule engine builds them: a title with or without a leading
\* emoji, and optional impact, body, action and documentation link
HandBuiltCards ==
    [kind : {"warning", "savings", "info", "success"},
     title : { << "Retention" >>, << "(emoji)", " ", "Retention" >> },
     impact : { << >>, << "Save" >> },
     body : { << >>, << "Reduce", "\n", "retention" >> },
     action : { << >>, << "Open", " ", "settings" >> },
     docs : { << >>, << "https://aka.ms/logs" >> }]

\* one card, or two cards with every field
HandBuiltSequences ==
    { << c >> : c \in HandBuiltCards }
    \cup { << c, d >> : c, d \in { x \in HandBuiltCards :
                                     /\ x.impact # << >> /\ x.body # << >>
                                     /\ x.action # << >> /\ x.docs # << >> } }

\* texts that need not be card markup
MaxTextLen == 3
TextInputs ==
    UNION { [1..n -> { "[CARD:info]", "[CARD:tip]", "[/CARD]", "[TITLE]", "[/TITLE]",
                       "savings", "Retention", "\n" }] : n \in 0..MaxTextLen }

runVars ==
    << selectedWorkspaces, summaryGlobal, queryIdx, allQueryData, alertScan,
       dashScan, azureRefs, dataSummary, gates, recommendations, outcome,
       alertRule, server >>

CodecInit ==
    /\ pc = "responseReady"
    /\ script \in {"part_001", "part_002"}
    /\ responseText \in TextInputs \cup { RenderMarkup(C) : C \in HandBuiltSequences }
    /\ contentHTML = << >>
    /\ clipboard = << >>
    /\ selectedWorkspaces = << >>
    /\ summaryGlobal \in { b \in SummaryBindings : b.bound }
    /\ queryIdx = 0
    /\ allQueryData = << >>
    /\ alertScan = ScanNotStarted
    /\ dashScan = ScanNotStarted
    /\ azureRefs = [alerts |-> {}, dashboards |-> {}]
    /\ dataSummary = NoSummary
    /\ gates = NoGates
    /\ recommendations = << >>
    /\ outcome = "none"
    /\ alertRule = [query |-> << >>, tables |-> << >>, scanned |-> FALSE]
    /\ server = << >>

\* showRecommendations: content.innerHTML = formatMarkdown(recommendations)
ShowRecommendations ==
    /\ pc = "responseReady"
    /\ pc' = "displayed"
    /\ contentHTML' = FormatMarkdown(script, responseText)
    /\ UNCHANGED << script, responseText, clipboard >>
    /\ UNCHANGED runVars

\* the click on 'Copy as Markdown'
CopyRecommendationsAsMarkdown ==
    /\ pc = "displayed"
    /\ pc' = "copied"
    /\ clipboard' = IF script = "part_001"
                    THEN HtmlToMarkdown(contentHTML)
                    ELSE CopyAsMarkdown(contentHTML)
    /\ UNCHANGED << script, responseText, contentHTML >>
    /\ UNCHANGED runVars

CodecNext ==
    \/ ShowRecommendations
    \/ CopyRecommendationsAsMarkdown

SpecCodec == CodecInit /\ [][CodecNext]_vars

(***************************************************************************)
(* Properties.  What the properties read off a finished run.               *)
(***************************************************************************)
\* showRecommendations was reached with the rule engine's cards
Shown == pc = "done" /\ outcome = "shown"

CardsTitled(title) ==
    {i \in 1..Len(recommendations) : recommendations[i].title = title}
TablesListedUnder(title) ==
    UNION {Range(recommendations[i].tables) : i \in CardsTitled(title)}

\* tables listed in a Basic Logs or Auxiliary Logs savings recommendation
TierSavingsTables ==
    TablesListedUnder(TitleBasicLogs) \cup TablesListedUnder(TitleAuxiliaryLogs)

\* tables the engine held to be safe for a cheaper tier
AssignedTierTables ==
    Range(Names(gates.safeForBasicLogs))
    \cup Range(Names(gates.basicCandidates))
    \cup Range(Names(gates.auxiliaryCandidates))

\* the candidate tables of the run
CandidateTables == Range(Names(gates.debugTableData))

\* a reference list names the table: case-insensitive, substring either way
ReferencedBy(references, tableName) ==
    \E r \in Range(references) :
        LET a == ToLowerCase(Spelling(r))
            b == ToLowerCase(Spelling(tableName))
        IN Includes(a, b) \/ Includes(b, a)

ReferencedByAlert(tableName) == ReferencedBy(dataSummary.tablesInAlerts, tableName)
ReferencedByDashboard(tableName) ==
    ReferencedBy(dataSummary.tablesInDashboards, tableName)

\* the rows of the query-frequency dataset that are about the table
FrequencyRowsAbout(tableName) ==
    {i \in 1..Len(dataSummary.frequentlyQueriedTables) :
        ToLowerCase(Spelling(dataSummary.frequentlyQueriedTables[i].tableName))
            = ToLowerCase(Spelling(tableName))}
HasFrequencyRow(tableName) == FrequencyRowsAbout(tableName) # {}

\* average queries per day in tenths; a table without a row counts as 0
AvgQueriesPerDay(tableName) ==
    IF HasFrequencyRow(tableName)
    THEN dataSummary.frequentlyQueriedTables[
             CHOOSE i \in FrequencyRowsAbout(tableName) :
                 \A k \in FrequencyRowsAbout(tableName) : i <= k].avgQueriesPerDay
    ELSE 0

IsBreakageCard(card) == card.title \in {TitleAlertTables, TitleDashboardTables}
IsAuditAdvisory(card) == card.title \in {TitleEnableLAQueryLogs, TitleLAQueryLogsBasic}

(***************************************************************************)
(* C1                                                                      *)
(***************************************************************************)
\* C1: a candidate table that an alert rule or a dashboard query references
\* is never held safe for Basic or Auxiliary and is never listed in a Basic
\* Logs or Auxiliary Logs savings recommendation, whatever its query
\* frequency and also when it has no frequency record.
C1_ReferencedNeverDowngraded ==
    \A t \in TierSavingsTables \cup AssignedTierTables :
        ~ReferencedByAlert(t) /\ ~ReferencedByDashboard(t)

\* a run whose output has a tier savings card, with a candidate that is
\* referenced, has no frequency record, and is left out of that card
C1_Witness ==
    /\ Shown
    /\ TierSavingsTables # {}
    /\ \E t \in CandidateTables :
         /\ ReferencedByAlert(t) \/ ReferencedByDashboard(t)
         /\ ~HasFrequencyRow(t)
         /\ t \notin TierSavingsTables

(***************************************************************************)
(* C2                                                                      *)
(***************************************************************************)
\* C2: a table that has no row in the query-frequency dataset never appears
\* in a Basic Logs or Auxiliary Logs savings recommendation, whether or not
\* other tables have frequency data.
C2_NoFrequencyRowNeverRecommended ==
    \A t \in TierSavingsTables : HasFrequencyRow(t)

(***************************************************************************)
(* C3                                                                      *)
(***************************************************************************)
\* C3: whenever the output is composed and a candidate table has no
\* query-frequency data, the output contains an "enable query auditing"
\* advisory card and no tier savings card lists that table.
C3_NoFrequencyDataGetsAdvisory ==
    Shown =>
        \A t \in CandidateTables :
            ~HasFrequencyRow(t) =>
                /\ \E i \in 1..Len(recommendations) :
                       IsAuditAdvisory(recommendations[i])
                /\ t \notin TierSavingsTables

(***************************************************************************)
(* C4                                                                      *)
(***************************************************************************)
\* C4: when tables have been classified, the alert and dashboard reference
\* sets they were classified against hold every table that the alert rules
\* and dashboard tiles of the selected subscriptions reference, also in runs
\* where a fetch failed.
C4_ClassifiedAgainstCompleteReferences ==
    Shown =>
        /\ azureRefs.alerts \subseteq Range(dataSummary.tablesInAlerts)
        /\ azureRefs.dashboards \subseteq Range(dataSummary.tablesInDashboards)

(***************************************************************************)
(* C5                                                                      *)
(***************************************************************************)
\* C5: in the card sequence, no card of another kind precedes an
\* alert-breakage or dashboard-breakage warning card.
C5_BreakageWarningsFirst ==
    \A i, j \in 1..Len(recommendations) :
        (i < j /\ IsBreakageCard(recommendations[j]))
            => IsBreakageCard(recommendations[i])

(***************************************************************************)
(* C6                                                                      *)
(***************************************************************************)
\* C6: when the output is composed, every table with usage that an alert
\* rule references is left out of the tier savings cards, and the output
\* has an alert-breakage warning card placed before every savings card.
C6_AlertReferencedWarnedBeforeSavings ==
    Shown =>
        \A t \in Range(Names(dataSummary.topTables)) :
            ReferencedByAlert(t) =>
                /\ t \notin TierSavingsTables
                /\ \E i \in CardsTitled(TitleAlertTables) :
                       \A j \in 1..Len(recommendations) :
                           recommendations[j].kind = "savings" => i < j

RECURSIVE RowsGB(_)
RowsGB(rows) ==
    IF rows = << >> THEN 0
    ELSE (IF Head(rows)[2].t = "num" THEN Head(rows)[2].n ELSE 0)
         + RowsGB(Tail(rows))

\* total ingestion over the workspaces queried, in tenths of a GB
RECURSIVE TotalIngestion(_)
TotalIngestion(data) ==
    IF data = << >> THEN 0
    ELSE RowsGB(Head(data).results.dataVolumeByTable.rows)
         + TotalIngestion(Tail(data))

\* a run that got past the workspace-selection guard and has ended
RunEnded == pc = "done" /\ Len(selectedWorkspaces) > 0

\* C8: a run over workspaces whose total ingestion is zero ends in the
\* "no billable data" state: the one no-data summary is shown, nothing was
\* classified and no card was produced.
C8_ZeroIngestionEndsInNoData ==
    (RunEnded /\ TotalIngestion(allQueryData) = 0)
        => /\ outcome = "noData"
           /\ gates = NoGates
           /\ recommendations = << >>

\* two workspaces, both without ingestion (one by a failed usage query),
\* ended in the no-data state
C8_Witness ==
    /\ RunEnded
    /\ Len(allQueryData) = 2
    /\ TotalIngestion(allQueryData) = 0
    /\ \E i \in 1..2 : allQueryData[i].results.dataVolumeByTable.error
    /\ outcome = "noData"

\* C9: a run whose total ingestion is above zero and below 1 GB ends in the
\* "minimal data" state and not in the "no data" state: the one minimal-data
\* summary is shown, nothing was classified and no card was produced.
C9_BelowOneGBEndsInMinimalData ==
    (/\ RunEnded
     /\ TotalIngestion(allQueryData) > 0
     /\ TotalIngestion(allQueryData) < Tenths(1))
        => /\ outcome = "minimalData"
           /\ gates = NoGates
           /\ recommendations = << >>

\* workspace A ingests 0 GB, workspace B 0.3 GB
C9_Witness ==
    /\ RunEnded
    /\ Len(allQueryData) = 2
    /\ RowsGB(allQueryData[1].results.dataVolumeByTable.rows) = 0
    /\ RowsGB(allQueryData[2].results.dataVolumeByTable.rows) = 3
    /\ outcome = "minimalData"

(***************************************************************************)
(* C10                                                                     *)
(***************************************************************************)
\* the title a table is to be reported under by the first rule it matches:
\* alert reference, dashboard reference, 5 or more queries a day, custom and
\* less than 1 query a day, otherwise Basic; the last two are replaced by the
\* query-audit advisory when LAQueryLogs returned nothing
FirstMatchingTitle(tableName) ==
    IF ReferencedByAlert(tableName) THEN TitleAlertTables
    ELSE IF ReferencedByDashboard(tableName) THEN TitleDashboardTables
    ELSE IF AvgQueriesPerDay(tableName) >= Tenths(FrequentQueriesPerDay)
    THEN TitleFrequentlyQueried
    ELSE IF ~dataSummary.laQueryLogsEnabled THEN TitleEnableLAQueryLogs
    ELSE IF /\ EndsWith(Spelling(tableName), << "_", "C", "L" >>)
            /\ AvgQueriesPerDay(tableName) < Tenths(AuxiliaryQueriesPerDay)
    THEN TitleAuxiliaryLogs
    ELSE TitleBasicLogs

DecisionTitles ==
    {TitleAlertTables, TitleDashboardTables, TitleFrequentlyQueried,
     TitleEnableLAQueryLogs, TitleLAQueryLogsBasic, TitleAuxiliaryLogs,
     TitleBasicLogs}

ReportedUnder(tableName) ==
    {title \in DecisionTitles : tableName \in TablesListedUnder(title)}

TablesWithUsage == Range(dataSummary.topTables)

IsCustomName(tableName) == EndsWith(Spelling(tableName), << "_", "C", "L" >>)
Unreferenced(tableName) ==
    ~ReferencedByAlert(tableName) /\ ~ReferencedByDashboard(tableName)

\* the GB of the listed tables, summed from the usage summary
ListedGB(card) ==
    SumGB(SelectSeq(dataSummary.topTables, LAMBDA t : t.name \in Range(card.tables)))

\* C11: in a composed output with query-frequency data, every non-custom
\* table with usage that no alert or dashboard references and whose measured
\* frequency is below 5 queries a day is listed in the Basic Logs savings
\* card, whose saving is the listed GB * 2.76 * 0.5 (Perf, 20 GB, 0.2 a day).
C11_InfrequentNonCustomGetsBasic ==
    (Shown /\ dataSummary.laQueryLogsEnabled) =>
        \A t \in TablesWithUsage :
            (/\ ~IsCustomName(t.name)
             /\ Unreferenced(t.name)
             /\ HasFrequencyRow(t.name)
             /\ AvgQueriesPerDay(t.name) < Tenths(5))
                => \E i \in CardsTitled(TitleBasicLogs) :
                       /\ t.name \in Range(recommendations[i].tables)
                       /\ recommendations[i].savings
                              = ListedGB(recommendations[i]) * 276 * 50

\* C12: in a composed output with query-frequency data, every custom table
\* with usage that no alert or dashboard references and whose measured
\* frequency is below 1 query a day is listed in the Auxiliary Logs savings
\* card, whose saving is the listed GB * 2.76 * 0.85 (Debug_CL, 5 GB, 0.1 a
\* day).
C12_RareCustomGetsAuxiliary ==
    (Shown /\ dataSummary.laQueryLogsEnabled) =>
        \A t \in TablesWithUsage :
            (/\ IsCustomName(t.name)
             /\ Unreferenced(t.name)
             /\ HasFrequencyRow(t.name)
             /\ AvgQueriesPerDay(t.name) < Tenths(1))
                => \E i \in CardsTitled(TitleAuxiliaryLogs) :
                       /\ t.name \in Range(recommendations[i].tables)
                       /\ recommendations[i].savings
                              = ListedGB(recommendations[i]) * 276 * 85

(***************************************************************************)
(* C13                                                                     *)
(***************************************************************************)
\* the collected data lacks something: a usage or frequency result without
\* rows, or an empty alert or dashboard set
MissingData ==
    \/ \E i \in 1..Len(allQueryData) :
           \/ Len(allQueryData[i].results.dataVolumeByTable.rows) = 0
           \/ Len(allQueryData[i].results.tableQueryFrequency.rows) = 0
           \/ Len(allQueryData[i].results.laQueryLogsStatus.rows) = 0
    \/ dataSummary.tablesInAlerts = << >>
    \/ dataSummary.tablesInDashboards = << >>

\* C13: a run over data with missing parts (a result without rows, no
\* query-frequency dataset, an empty alert or dashboard set) never ends with
\* a raised error: it ends with a terminal summary or with recommendations.
C13_MissingDataNeverRaised ==
    (pc = "done" /\ Len(selectedWorkspaces) > 0 /\ MissingData)
        => outcome \in {"noData", "minimalData", "shown", "shownAI"}

(***************************************************************************)
(* C14                                                                     *)
(***************************************************************************)
\* every query of every workspace failed or returned nothing
AllQueriesUnusable ==
    \A i \in 1..Len(allQueryData) :
        /\ Len(allQueryData[i].results.dataVolumeByTable.rows) = 0
        /\ Len(allQueryData[i].results.tableQueryFrequency.rows) = 0
        /\ Len(allQueryData[i].results.laQueryLogsStatus.rows) = 0

CardTitles == {recommendations[i].title : i \in 1..Len(recommendations)}

\* the cards of a whole pass through the rule engine: from the executive
\* summary to the two closing guidance cards
CompleteCardSequence ==
    /\ recommendations[1].title = TitleExecutiveSummary
    /\ \E i, j \in 1..Len(recommendations) :
           /\ i < j
           /\ recommendations[i].title = TitleRetention
           /\ recommendations[j].title = TitleDataCollection
           /\ \A k \in (j + 1)..Len(recommendations) :
                  recommendations[k].title = TitleAIUnavailable

\* C14: a run in which every workspace query failed or returned nothing ends
\* in the "no data" state and not with an error; and whatever the data, cards
\* are shown only as the complete sequence of a finished run: a run that
\* raised shows none.
C14_UnusableDataEndsInNoDataAllOrNothing ==
    /\ (RunEnded /\ AllQueriesUnusable)
           => (outcome = "noData" /\ recommendations = << >>)
    /\ recommendations # << >>
           => (pc = "done" /\ outcome = "shown" /\ CompleteCardSequence)

\* two workspaces whose queries all failed, ended in the no-data state
C14_Witness ==
    /\ RunEnded
    /\ Len(allQueryData) = 2
    /\ AllQueriesUnusable
    /\ \A i \in 1..2 : allQueryData[i].results.dataVolumeByTable.error
    /\ outcome = "noData"

(***************************************************************************)
(* C15                                                                     *)
(***************************************************************************)
\* C15: in every composed output the savings cards are in order of descending
\* estimated saving: of two savings cards, the earlier one saves at least as
\* much per month as the later one.
C15_SavingsCardsDescending ==
    Shown =>
        \A i, j \in 1..Len(recommendations) :
            (/\ i < j
             /\ recommendations[i].kind = "savings"
             /\ recommendations[j].kind = "savings")
                => recommendations[i].savings >= recommendations[j].savings

(***************************************************************************)
(* C16                                                                     *)
(***************************************************************************)
\* C16: in every composed output the info cards come last: no info card
\* precedes a savings card or a warning card.
C16_InfoCardsLast ==
    Shown =>
        \A i, j \in 1..Len(recommendations) :
            (i < j /\ recommendations[i].kind = "info")
                => recommendations[j].kind = "info"

(***************************************************************************)
(* C17                                                                     *)
(***************************************************************************)
\* the tables with nonzero ingestion in the usage results of the run
IngestingTables ==
    UNION { { row[1].v : row \in { r \in Range(allQueryData[i].results.dataVolumeByTable.rows) :
                                     r[2].t = "num" /\ r[2].n > 0 } } :
            i \in 1..Len(allQueryData) }

\* the tables handed to the classification of line 1814
PassedToClassification == Range(Names(dataSummary.topTables))

\* C17: in a composed output the tables passed to classification are all the
\* tables with usage, not only the ten largest, and each of them is
\* classified: it is among the candidates the tier rules are applied to.
C17_AllTablesWithUsageClassified ==
    Shown =>
        /\ IngestingTables \subseteq PassedToClassification
        /\ IngestingTables \subseteq CandidateTables

(***************************************************************************)
(* C18                                                                     *)
(***************************************************************************)
\* the card tags of a text, in order
CardTagsOf(text) == SelectSeq(text, LAMBDA t : t \in CardOpeners \cup {"[/CARD]"})

\* not well-formed card markup: no card tag, a card of an unknown kind, or
\* card tags that do not pair up as opening tag, closing tag
Malformed(text) ==
    \/ CardTagsOf(text) = << >>
    \/ "[CARD:tip]" \in Range(text)
    \/ Len(CardTagsOf(text)) % 2 = 1
    \/ \E i \in 1..Len(CardTagsOf(text)) :
           (CardTagsOf(text)[i] = "[/CARD]") # (i % 2 = 0)

\* the words and tags of a text, without the white space
Inked(text) == SelectSeq(text, LAMBDA t : t \notin {" ", "\n"})

RECURSIVE Flattened(_)
Flattened(paragraphs) ==
    IF paragraphs = << >> THEN << >>
    ELSE Head(paragraphs) \o Flattened(Tail(paragraphs))

\* C18: a text that is not well-formed card markup (no card tags, an unknown
\* card kind, unbalanced tags) is shown as exactly one info card whose body
\* is the entire input.
C18_MalformedBecomesOneInfoCard ==
    (pc \in {"displayed", "copied"} /\ Malformed(responseText)) =>
        /\ Len(contentHTML) = 1
        /\ contentHTML[1].node = "div"
        /\ contentHTML[1].kind = "info"
        /\ Inked(Flattened(contentHTML[1].body)) = Inked(responseText)

(***************************************************************************)
(* C19                                                                     *)
(***************************************************************************)
\* the cards formatMarkdown made of the text
ParsedCards == SelectSeq(contentHTML, LAMBDA n : n.node = "div")

\* C19: the markup rendered from a well-formed card sequence parses into as
\* many cards with, position by position, the same kind, title, impact,
\* action and documentation URL.
C19_RoundTrip ==
    pc \in {"displayed", "copied"} =>
        \A C \in HandBuiltSequences :
            responseText = RenderMarkup(C) =>
                /\ Len(ParsedCards) = Len(C)
                /\ \A i \in 1..Len(C) :
                       /\ ParsedCards[i].kind = C[i].kind
                       /\ ParsedCards[i].title = C[i].title
                       /\ ParsedCards[i].impact = C[i].impact
                       /\ ParsedCards[i].action = C[i].action
                       /\ ParsedCards[i].docs = C[i].docs

(***************************************************************************)
(* C20                                                                     *)
(***************************************************************************)
\* the output (elements of the page, or entries of the export) has every
\* card of C with every field the card has
KeepsEveryField(out, C) ==
    /\ Len(out) = Len(C)
    /\ \A i \in 1..Len(C) :
           /\ out[i].icon = icons[C[i].kind]
           /\ out[i].title # << >>
           /\ C[i].impact # << >> => out[i].impact = C[i].impact
           /\ C[i].body # << >> => Inked(Flattened(out[i].body)) = Inked(C[i].body)
           /\ C[i].action # << >> => out[i].action = C[i].action
           /\ C[i].docs # << >> => out[i].docs = C[i].docs

\* C20: for every card of the input sequence, the page and the Markdown
\* export both keep its kind, title, impact badge, body, action text and
\* documentation link.
C20_BothRenderersKeepEveryField ==
    pc = "copied" =>
        \A C \in HandBuiltSequences :
            responseText = RenderMarkup(C) =>
                /\ KeepsEveryField(ParsedCards, C)
                /\ KeepsEveryField(clipboard, C)

(***************************************************************************)
(* C22                                                                     *)
(***************************************************************************)
\* the order of the UTF-16 code units of the characters of a table name
CodeUnitOrder ==
    << "0","1","2","3","4","5","6","7","8","9" >> \o UpperCaseLetters
        \o << "_" >> \o LowerCaseLetters
CodeUnit(c) == CHOOSE i \in 1..Len(CodeUnitOrder) : CodeUnitOrder[i] = c

\* a < b for two strings, by code units
RECURSIVE SpelledBefore(_, _)
SpelledBefore(a, b) ==
    IF b = << >> THEN FALSE
    ELSE IF a = << >> THEN TRUE
    ELSE IF Head(a) = Head(b) THEN SpelledBefore(Tail(a), Tail(b))
    ELSE CodeUnit(Head(a)) < CodeUnit(Head(b))

\* C22: the ranked table list is sorted by total GB descending and tables with
\* equal total GB are in ascending order of name, so that the ranking does
\* not depend on the order of the rows.
C22_RankedByGBThenName ==
    \A i, j \in 1..Len(dataSummary.topTables) :
        i < j =>
            \/ dataSummary.topTables[i].gb > dataSummary.topTables[j].gb
            \/ /\ dataSummary.topTables[i].gb = dataSummary.topTables[j].gb
               /\ SpelledBefore(Spelling(dataSummary.topTables[i].name),
                                Spelling(dataSummary.topTables[j].name))

\* the ranked list is always in descending order of GB
C22_RankedByGBDescending ==
    \A i, j \in 1..Len(dataSummary.topTables) :
        i < j => dataSummary.topTables[i].gb >= dataSummary.topTables[j].gb

\* the busy workspace: Heartbeat and AzureActivity, 10 GB each, are ranked in
\* the order of their rows
C22_TiedInRowOrder ==
    /\ Len(dataSummary.topTables) >= 2
    /\ dataSummary.topTables[1] = [name |-> "Heartbeat", gb |-> LargerTableGB]
    /\ dataSummary.topTables[2] = [name |-> "AzureActivity", gb |-> LargerTableGB]

(***************************************************************************)
(* C24                                                                     *)
(***************************************************************************)
\* tier100Savings of the shown Commitment Tier card, in whole percent: the
\* saving of the card over the Pay-As-You-Go cost of the same volume
CommitmentTierSavingsPct ==
    IF CardsTitled(TitleCommitmentTier) = {} THEN 0
    ELSE recommendations[CHOOSE i \in CardsTitled(TitleCommitmentTier) : TRUE].savings
             \div (dataSummary.totalIngestionGB * PriceAnalyticsCents)

C24_ApproachingShown ==
    /\ Shown
    /\ dataSummary.totalIngestionGB = Tenths(ApproachingTierDailyGB) * DaysPerMonth
    /\ CardsTitled(TitleApproachingTier) # {}
    /\ CardsTitled(TitleCommitmentTier) = {}

(***************************************************************************)
(* C30                                                                     *)
(***************************************************************************)
\* the step in which getAIRecommendations ends in its catch branch
AICallFails == pc = "awaitingAI" /\ outcome' # "shownAI"

\* C30: when the AI call fails, getAIRecommendations does not raise: the run
\* ends by showing the rule-based recommendations followed by a final
\* warning card saying that AI analysis is unavailable, not by the
\* "Analysis failed" error.
C30_AIFailureFallsBackToRules ==
    [][AICallFails =>
          /\ pc' = "done"
          /\ outcome' = "shown"
          /\ recommendations' # << >>
          /\ recommendations'[Len(recommendations')]
                 = Card("warning", TitleAIUnavailable, << >>, 0)
          /\ SubSeq(recommendations', 1, Len(recommendations') - 1)
                 = GenerateRecommendations(dataSummary, summaryGlobal).cards]_vars

\* the fallback raised: the run that awaited the AI ends in "Analysis failed"
C30_FallbackRaised ==
    [][AICallFails => outcome' # "analysisFailed"]_vars

\* a run that ended with the fallback and its final warning card
C30_FallbackShown ==
    /\ Shown
    /\ recommendations # << >>
    /\ recommendations[Len(recommendations)].title = TitleAIUnavailable

(***************************************************************************)
(* C23                                                                     *)
(***************************************************************************)
\* summarizeQueryData has run over the workspaces of allQueryData
Summarized == dataSummary.totalWorkspaces > 0

\* the workspaces whose usage result has no row
WithoutUsageRows ==
    { i \in 1..Len(allQueryData) :
        allQueryData[i].results.dataVolumeByTable.rows = << >> }

\* C23: for every workspace whose usage result has an empty rows sequence the
\* summarizer yields 0 GB for that workspace and does not count it in
\* workspacesWithData: the workspaces counted are those with a positive GB
\* figure, none of which is a workspace without rows.
C23_EmptyRowsGiveZeroAndAreNotCounted ==
    Summarized =>
        /\ Len(dataSummary.workspaceGB) = Len(allQueryData)
        /\ \A i \in WithoutUsageRows : dataSummary.workspaceGB[i] = 0
        /\ dataSummary.workspacesWithData
               = Cardinality({ i \in 1..Len(allQueryData) :
                                 dataSummary.workspaceGB[i] > 0 })
        /\ dataSummary.workspacesWithData
               <= Len(allQueryData) - Cardinality(WithoutUsageRows)

\* a summary over one workspace without rows and one with 60 GB: one of the
\* two workspaces has data
C23_Witness ==
    /\ Summarized
    /\ WithoutUsageRows = {1}
    /\ dataSummary.workspaceGB = << 0, 600 >>
    /\ dataSummary.workspacesWithData = 1
    /\ dataSummary.workspacesEmpty = 1

(***************************************************************************)
(* C25                                                                     *)
(***************************************************************************)
\* C25: no GB figure and no dollar figure of the summary or of a card is
\* negative, whatever the usage results: the GB of each ranked table, of each
\* workspace (and so of each resource group), the total, and the estimated
\* saving of each card.
C25_NoNegativeFigure ==
    /\ dataSummary.totalIngestionGB >= 0
    /\ \A i \in 1..Len(dataSummary.workspaceGB) : dataSummary.workspaceGB[i] >= 0
    /\ \A i \in 1..Len(dataSummary.topTables) : dataSummary.topTables[i].gb >= 0
    /\ \A i \in 1..Len(recommendations) : recommendations[i].savings >= 0

\* the figures are non-negative whenever no GB cell of a usage row is negative
C25_NonNegativeCellsGiveNonNegativeFigures ==
    (\A i \in 1..Len(allQueryData) :
        \A row \in Range(allQueryData[i].results.dataVolumeByTable.rows) :
            \A k \in 1..Len(row) : row[k].t = "num" => row[k].n >= 0)
        => C25_NoNegativeFigure

\* a negative cell reaches the summary: workspace wsB at -5 GB, the total at
\* 55 GB, and the recommendations are shown
C25_NegativeTotalShown ==
    /\ Shown
    /\ dataSummary.workspaceGB = << 600, 0 - 50 >>
    /\ dataSummary.totalIngestionGB = 550

\* a negative saving is shown: with Syslog referenced by an alert rule,
\* AppTraces at -5 GB is the one table of a savings card
C25_NegativeSavingShown ==
    /\ Shown
    /\ \E i \in 1..Len(recommendations) :
          /\ recommendations[i].kind = "savings"
          /\ recommendations[i].tables = << "AppTraces" >>
          /\ recommendations[i].savings < 0

(***************************************************************************)
(* C26                                                                     *)
(***************************************************************************)
\* the usage result of the i-th workspace
UsageResult(i) == allQueryData[i].results.dataVolumeByTable

\* C26: when the column list of a usage result lacks "BillableGB" the GB
\* values are read from position 1 of the rows, and when it lacks "DataType"
\* the table names are read from position 0: the workspace's GB is the sum of
\* the cells at position 1 and the tables named at position 0 are the ones
\* ranked.
C26_PositionalFallback ==
    Summarized =>
        \A i \in 1..Len(allQueryData) :
            /\ "BillableGB" \notin Range(UsageResult(i).columns)
                 => dataSummary.workspaceGB[i] = RowsGB(UsageResult(i).rows)
            /\ "DataType" \notin Range(UsageResult(i).columns)
                 => \A row \in Range(UsageResult(i).rows) :
                        row[1].v \in Range(Names(dataSummary.topTables))

\* both columns under other names: the 60 GB of Syslog are summarized as a
\* workspace of 0 GB and a table "Unknown" of 0 GB
C26_RenamedColumnsReadAsNothing ==
    /\ Summarized
    /\ UsageResult(1) = TableResult(<< "Type", "GB" >>, << VolumeRow("Syslog", 600) >>)
    /\ UsageResult(2).rows = << >>
    /\ dataSummary.workspaceGB = << 0, 0 >>
    /\ dataSummary.topTables = << [name |-> "Unknown", gb |-> 0] >>
    /\ outcome = "noData"

(***************************************************************************)
(* C21                                                                     *)
(***************************************************************************)
\* the words of the extractor's denylist, and the other words of the query
\* language that occur in the patterns and in the query texts
DeniedWords ==
    {"where", "project", "summarize", "extend", "join", "take", "top", "limit",
     "order", "sort", "distinct", "count", "let", "set", "print", "render",
     "ago", "now", "datetime", "timespan", "true", "false", "null", "and",
     "or", "not"}
LanguageWords ==
    DeniedWords \cup {"mv-expand", "parse", "evaluate", "union", "kind", "inner",
                     "table", "by", "on"}

\* Heartbeat | where TimeGenerated > ago(1h) | summarize count() by Computer
HeartbeatQuery ==
    Spelling("Heartbeat") \o << " ", "|", " " >> \o Spelling("where") \o << " " >>
        \o Spelling("TimeGenerated") \o << " ", ">", " " >> \o Spelling("ago")
        \o << "(", "1", "h", ")", " ", "|", " " >> \o Spelling("summarize")
        \o << " " >> \o Spelling("count") \o << "(", ")", " " >> \o Spelling("by")
        \o << " " >> \o Spelling("Computer")

\* C21: every name the extractor returns starts with an uppercase letter, is
\* longer than two characters and is not a keyword (no word of the denylist
\* in any capitalisation, no word of the query language as it is written),
\* and no name is returned twice; for the query HeartbeatQuery the result
\* contains Heartbeat and none of where, summarize, by.
C21_ExtractedNamesAreTableNames ==
    alertRule.scanned =>
        /\ \A i \in 1..Len(alertRule.tables) :
              /\ Len(alertRule.tables[i]) > 2
              /\ alertRule.tables[i][1] \in Range(UpperCaseLetters)
              /\ \A w \in DeniedWords :
                    ToLowerCase(alertRule.tables[i]) # Spelling(w)
              /\ \A w \in LanguageWords : alertRule.tables[i] # Spelling(w)
        /\ \A i, j \in 1..Len(alertRule.tables) :
              i # j => alertRule.tables[i] # alertRule.tables[j]
        /\ alertRule.query = HeartbeatQuery
              => /\ Spelling("Heartbeat") \in Range(alertRule.tables)
                 /\ \A w \in {"where", "summarize", "by"} :
                       Spelling(w) \notin Range(alertRule.tables)

\* the extractor has run on HeartbeatQuery and returned Heartbeat alone
C21_Witness ==
    /\ alertRule.scanned
    /\ alertRule.query = HeartbeatQuery
    /\ alertRule.tables = << Spelling("Heartbeat") >>

\* two names are returned for a union, once each even when a later pattern
\* finds one of them again
C21_UnionFound ==
    /\ alertRule.scanned
    /\ alertRule.tables = << Spelling("Syslog"), Spelling("Heartbeat") >>

(***************************************************************************)
(* C27                                                                     *)
(***************************************************************************)

\* the values no response may carry: the access token the status handler
\* receives, the credential objects, the Azure OpenAI keys
Secrets ==
    {"token", "session.credential", "cliCredential", "model1.apiKey",
     "model2.apiKey"}

\* C27: no response body of any endpoint carries an Azure access token, a
\* credential object or an Azure OpenAI API key, whatever requests came
\* before it.
C27_NoCredentialInResponse ==
    \A field \in server.response : field[2] = "value" => field[3] \notin Secrets

\* a request was served with the credential of an authenticated session
\* and its response carries the data it listed
C27_Witness ==
    /\ server.served.by = "session"
    /\ \E endpoint \in {"subscriptions", "workspaces", "query"} :
          server.response = {<< endpoint, "value", endpoint >>}

(***************************************************************************)
(* C28                                                                     *)
(***************************************************************************)

\* C28: a session object removed by a logout is not in the session store
\* again, also when a status request that read it before the logout is
\* answered after it, and no request is served with its credential.
C28_LogoutIsFinal ==
    /\ \A s \in DOMAIN server.sessions : server.sessions[s] \notin server.revoked
    /\ server.served.by = "session" => server.served.credential \notin server.revoked

\* a request is served with the credential of a session that was logged out
C28_ServedAfterLogout ==
    /\ server.served.by = "session"
    /\ server.served.credential \in server.revoked

(***************************************************************************)
(* C29                                                                     *)
(***************************************************************************)

\* C29: a session id stored with an authenticated session object keeps that
\* object, authenticated, in every step that does not remove the id from
\* the store (as only the logout does).
C29_AuthenticatedStays ==
    [][\A s \in DOMAIN server.sessions :
          (/\ server.sessions[s] # 0
           /\ server.objects[server.sessions[s]].status = "authenticated")
          => \/ server'.sessions[s] = 0
             \/ /\ server'.sessions[s] = server.sessions[s]
                /\ server'.objects[server.sessions[s]].status = "authenticated"]_vars

\* a session id is stored with a pending session object while an
\* authenticated one, never logged out, is no longer under any id
C29_Replaced ==
    \E s \in DOMAIN server.sessions, c \in 1..MaxCredentials :
        /\ server.sessions[s] # 0
        /\ server.sessions[s] # c
        /\ server.objects[server.sessions[s]].status = "pending"
        /\ server.objects[c].status = "authenticated"
        /\ c \notin server.revoked
        /\ \A x \in DOMAIN server.sessions : server.sessions[x] # c
====
